---- MODULE Spec2Model ----
(***************************************************************************)
(* The derivative rule sets of ufl/algorithms/apply_derivatives.py and the *)
(* top-level dispatcher that applies them, as a state machine over         *)
(* expression trees.  An expression node is a record; the handlers of the  *)
(* rule sets are operators translated from the Python methods; one pass of *)
(* map_expr_dag is a sequence of handler calls in post-order.              *)
(***************************************************************************)
EXTENDS Integers, Sequences, FiniteSets, TLC

\* ------------------------------------------------------------------ bounds

\* Geometric dimension of the mesh the terminals live on.
GDim == 3
\* Topological dimension of its cells (a surface mesh when TDim < GDim).
TDim == 2
\* Value dimension of the vector-valued form arguments.
VDim == 2

\* The module-level toggle of the conditional rule.
VARIABLE CONDITIONAL_WORKAROUND

\* ------------------------------------------------------- expression nodes

\* One node.  k: the node kind, named by its handler name; ops: operands;
\* sh: ufl_shape; fi: free indices as a set of <<index id, dimension>>;
\* ix: the entries of a multi-index (n > 0 is Index n, n <= 0 is
\* FixedIndex(-n)); id: count of a form argument or label, value of a
\* literal in thousandths; cc: 1 when a terminal is cellwise constant;
\* dom: domain of a terminal (0 affine, 1 non-affine); msg: error message.
Node(k, ops, sh, fi, ix, id, cc, dom, msg) ==
    [k |-> k, ops |-> ops, sh |-> sh, fi |-> fi, ix |-> ix, id |-> id,
     cc |-> cc, dom |-> dom, msg |-> msg]

\* ufl.log.error raises: the value that replaces the result of a call.
Err(msg) == Node("error", <<>>, <<>>, {}, <<>>, 0, 0, 0, msg)
IsErr(e) == e.k = "error"

\* Python's None (the result of the condition handlers).
None == Node("none", <<>>, <<>>, {}, <<>>, 0, 0, 0, "")

\* An exception raised while evaluating an operand propagates.
FirstErr(es) == es[CHOOSE p \in 1..Len(es) : IsErr(es[p]) /\ \A q \in 1..(p-1) : ~IsErr(es[q])]
AnyErr(es) == \E p \in 1..Len(es) : IsErr(es[p])

Op(k, ops, sh, fi) == Node(k, ops, sh, fi, <<>>, 0, 0, 0, "")

\* ---- terminals

Zero(sh, fi) == Node("zero", <<>>, sh, fi, <<>>, 0, 1, 0, "")
IntValue(v) == IF v = 0 THEN Zero(<<>>, {}) ELSE Node("int_value", <<>>, <<>>, {}, <<>>, 1000 * v, 1, 0, "")
FloatValue(m) == IF m = 0 THEN Zero(<<>>, {}) ELSE Node("float_value", <<>>, <<>>, {}, <<>>, m, 1, 0, "")
Identity(d) == Node("identity", <<>>, <<d, d>>, {}, <<>>, 0, 1, 0, "")
Coefficient(id, sh, cc) == Node("coefficient", <<>>, sh, {}, <<>>, id, cc, 1, "")
Argument(id, sh, cc) == Node("argument", <<>>, sh, {}, <<>>, id, cc, 1, "")
SpatialCoordinate(dom) == Node("spatial_coordinate", <<>>, <<GDim>>, {}, <<>>, 0, 0, dom, "")
CellCoordinate(dom) == Node("cell_coordinate", <<>>, <<TDim>>, {}, <<>>, 0, 0, dom, "")
JacobianInverse(dom) == Node("jacobian_inverse", <<>>, <<TDim, GDim>>, {}, <<>>, 0, IF dom = 0 THEN 1 ELSE 0, dom, "")
FacetNormal(dom) == Node("facet_normal", <<>>, <<GDim>>, {}, <<>>, 0, IF dom = 0 THEN 1 ELSE 0, dom, "")
CellVolume(dom) == Node("cell_volume", <<>>, <<>>, {}, <<>>, 0, 1, dom, "")
MultiIndex(ix) == Node("multi_index", <<>>, <<>>, {}, ix, 0, 1, 0, "")
Label(id) == Node("label", <<>>, <<>>, {}, <<>>, id, 1, 0, "")

TerminalKinds ==
    {"zero", "int_value", "float_value", "identity", "coefficient", "argument",
     "spatial_coordinate", "cell_coordinate", "jacobian_inverse", "facet_normal",
     "cell_volume", "multi_index", "label"}
ConstantValueKinds == {"zero", "int_value", "float_value", "identity"}
ScalarValueKinds == {"int_value", "float_value"}

IsTerminal(e) == e.k \in TerminalKinds
IsZero(e) == e.k = "zero"
IsConstantValue(e) == e.k \in ConstantValueKinds

\* ---- helpers on shapes and indices

Front(s) == IF Len(s) = 0 THEN s ELSE SubSeq(s, 1, Len(s) - 1)
Rest(s) == IF Len(s) = 0 THEN s ELSE SubSeq(s, 2, Len(s))
Range(s) == {s[p] : p \in 1..Len(s)}
Max(S) == CHOOSE m \in S : \A x \in S : x <= m
FiIds(fi) == {p[1] : p \in fi}
DimOf(fi, i) == (CHOOSE p \in fi : p[1] = i)[2]
\* An index id carries one dimension only.
ConsistentFi(fi) == \A p \in fi : \A q \in fi : p[1] = q[1] => p[2] = q[2]
\* Removing index ids from a free-index set.
WithoutIds(fi, ids) == {p \in fi : p[1] \notin ids}

is_ufl_scalar(e) == e.sh = <<>>
is_true_ufl_scalar(e) == e.sh = <<>> /\ e.fi = {}

RECURSIVE is_cellwise_constant(_)
is_cellwise_constant(e) ==
    IF IsTerminal(e) THEN e.cc = 1
    ELSE \A p \in 1..Len(e.ops) : is_cellwise_constant(e.ops[p])

\* The largest index id occurring in an expression (0 when there is none).
RECURSIVE MaxIdx(_)
MaxIdx(e) ==
    LET own == {0} \cup {x \in Range(e.ix) : x > 0} \cup FiIds(e.fi)
        sub == {MaxIdx(e.ops[p]) : p \in 1..Len(e.ops)}
    IN Max(own \cup sub)

\* indices(n) with the global Index counter standing at `base`.
indices(n, base) == [p \in 1..(IF n > 0 THEN n ELSE 0) |-> base + p]

\* ------------------------------------------------ node constructors (UFL)

\* A literal of kind int_value or float_value from a value in thousandths.
ScalarValue(isfloat, m) ==
    IF m = 0 THEN Zero(<<>>, {})
    ELSE Node(IF isfloat THEN "float_value" ELSE "int_value", <<>>, <<>>, {}, <<>>, m, 1, 0, "")
IsScalarValue(e) == e.k \in ScalarValueKinds
EitherFloat(a, b) == a.k = "float_value" \/ b.k = "float_value"

\* Free indices of A[ix]: those of A and the Index entries of ix.
IndexedFi(A, ix) ==
    A.fi \cup {<<ix[p], A.sh[p]>> : p \in {q \in 1..Len(ix) : ix[q] > 0}}

Indexed(A, mi) ==
    IF AnyErr(<<A, mi>>) THEN FirstErr(<<A, mi>>)
    ELSE IF Len(A.sh) # Len(mi.ix)
    THEN Err("Invalid number of indices for tensor expression.")
    ELSE IF \E p \in 1..Len(mi.ix) : mi.ix[p] <= 0 /\ -mi.ix[p] >= A.sh[p]
    THEN Err("Fixed index out of range!")
    ELSE IF ~ConsistentFi(IndexedFi(A, mi.ix))
    THEN Err("Nonmatching dimensions for free indices with same id.")
    ELSE IF IsZero(A) THEN Zero(<<>>, IndexedFi(A, mi.ix))
    ELSE Op("indexed", <<A, mi>>, <<>>, IndexedFi(A, mi.ix))

ComponentTensor(e, mi) ==
    IF AnyErr(<<e, mi>>) THEN FirstErr(<<e, mi>>)
    ELSE IF e.sh # <<>> THEN Err("Expecting scalar valued expression.")
    ELSE IF \E p \in 1..Len(mi.ix) : mi.ix[p] <= 0
    THEN Err("Expecting sequence of Index objects, not FixedIndex.")
    ELSE IF ~(Range(mi.ix) \subseteq FiIds(e.fi)) THEN Err("Missing free indices.")
    ELSE LET sh == [p \in 1..Len(mi.ix) |-> DimOf(e.fi, mi.ix[p])]
             fi == WithoutIds(e.fi, Range(mi.ix))
         IN IF IsZero(e) THEN Zero(sh, fi)
            ELSE Op("component_tensor", <<e, mi>>, sh, fi)

\* src/ufl/indexsum.py: shape is the summand's, the summed index leaves the
\* free indices.
IndexSum(summand, index) ==
    IF AnyErr(<<summand, index>>) THEN FirstErr(<<summand, index>>)
    ELSE IF Len(index.ix) # 1 THEN Err("Expecting a single Index only.")
    ELSE Op("index_sum", <<summand, index>>, summand.sh,
            WithoutIds(summand.fi, {index.ix[1]}))

\* ufl.tensors.as_tensor(expr, indices).
as_tensor(e, ix) ==
    IF IsErr(e) THEN e
    ELSE IF ix = <<>> THEN e
    ELSE IF e.k = "indexed" /\ e.ops[2].ix = ix THEN e.ops[1]
    ELSE ComponentTensor(e, MultiIndex(ix))

\* Index ids that expr[ix] sums over: repeated in ix, or already free in e.
RepeatedIds(e, ix) ==
    {ix[p] : p \in {q \in 1..Len(ix) :
        ix[q] > 0 /\ (ix[q] \in FiIds(e.fi) \/ \E r \in 1..Len(ix) : r # q /\ ix[r] = ix[q])}}

RECURSIVE SumOver(_, _)
SumOver(e, ids) ==
    IF ids = {} THEN e
    ELSE LET i == Max(ids) IN SumOver(IndexSum(e, MultiIndex(<<i>>)), ids \ {i})

\* expr[ix] for a tuple of indices (Expr.__getitem__).
GetItem(e, ix) ==
    IF IsErr(e) THEN e
    ELSE IF Len(e.sh) # Len(ix)
    THEN Err("Invalid number of indices for tensor expression.")
    ELSE IF ix = <<>> THEN e
    ELSE IF e.k = "component_tensor" /\ e.ops[2].ix = ix THEN e.ops[1]
    ELSE SumOver(Indexed(e, MultiIndex(ix)), RepeatedIds(e, ix))

\* ufl.tensors.as_scalar(e): (e[ii], ii) with fresh ii covering the shape.
as_scalar_indices(e, base) == indices(Len(e.sh), base)
as_scalar(e, base) == GetItem(e, as_scalar_indices(e, base))

Sum(a, b) ==
    IF AnyErr(<<a, b>>) THEN FirstErr(<<a, b>>)
    ELSE IF a.sh # b.sh THEN Err("Can't add expressions with different shapes.")
    ELSE IF a.fi # b.fi THEN Err("Can't add expressions with different free indices.")
    ELSE IF IsZero(a) THEN b
    ELSE IF IsZero(b) THEN a
    ELSE IF IsScalarValue(a) /\ IsScalarValue(b) THEN ScalarValue(EitherFloat(a, b), a.id + b.id)
    ELSE Op("sum", <<a, b>>, a.sh, a.fi)

Product(a, b) ==
    IF AnyErr(<<a, b>>) THEN FirstErr(<<a, b>>)
    ELSE IF a.sh # <<>> \/ b.sh # <<>>
    THEN Err("Product can only represent products of scalars.")
    ELSE IF ~ConsistentFi(a.fi \cup b.fi)
    THEN Err("Nonmatching dimensions for free indices with same id.")
    ELSE IF IsZero(a) \/ IsZero(b) THEN Zero(<<>>, a.fi \cup b.fi)
    ELSE IF IsScalarValue(a) /\ IsScalarValue(b)
    THEN ScalarValue(EitherFloat(a, b), (a.id * b.id) \div 1000)
    ELSE IF IsScalarValue(a) /\ a.id = 1000 THEN b
    ELSE IF IsScalarValue(b) /\ b.id = 1000 THEN a
    ELSE Op("product", <<a, b>>, <<>>, a.fi \cup b.fi)

Division(a, b) ==
    IF AnyErr(<<a, b>>) THEN FirstErr(<<a, b>>)
    ELSE IF ~is_ufl_scalar(a) THEN Err("Expecting scalar nominator in Division.")
    ELSE IF ~is_true_ufl_scalar(b) THEN Err("Division by non-scalar is undefined.")
    ELSE IF IsZero(b) THEN Err("Division by zero!")
    ELSE IF IsZero(a) \/ (IsScalarValue(b) /\ b.id = 1000) THEN a
    ELSE IF IsScalarValue(a) /\ IsScalarValue(b) THEN ScalarValue(TRUE, (1000 * a.id) \div b.id)
    ELSE Op("division", <<a, b>>, <<>>, a.fi)

Power(a, b) ==
    IF AnyErr(<<a, b>>) THEN FirstErr(<<a, b>>)
    ELSE IF ~is_true_ufl_scalar(a) THEN Err("Cannot take the power of a non-scalar expression.")
    ELSE IF ~is_true_ufl_scalar(b) THEN Err("Cannot raise an expression to a non-scalar power.")
    ELSE IF IsZero(b) THEN IntValue(1)
    ELSE IF IsZero(a) /\ IsScalarValue(b)
    THEN (IF b.id < 0 THEN Err("Division by zero, cannot raise 0 to a negative power.")
          ELSE Zero(<<>>, {}))
    ELSE IF IsScalarValue(b) /\ b.id = 1000 THEN a
    ELSE Op("power", <<a, b>>, <<>>, {})

\* ---- the arithmetic operators of Expr (ufl.exproperators)

\* a * b: scalar product, or scalar times tensor in index notation, with
\* implicit summation over repeated free indices.
Mul(a, b, base) ==
    IF AnyErr(<<a, b>>) THEN FirstErr(<<a, b>>)
    ELSE IF a.sh = <<>> /\ b.sh = <<>>
    THEN SumOver(Product(a, b), FiIds(a.fi) \cap FiIds(b.fi))
    ELSE IF a.sh = <<>> \/ b.sh = <<>>
    THEN LET s == IF a.sh = <<>> THEN a ELSE b
             t == IF a.sh = <<>> THEN b ELSE a
             ti == indices(Len(t.sh), base)
         IN IF IsZero(s) \/ IsZero(t) THEN Zero(t.sh, {})
            ELSE SumOver(as_tensor(Product(s, GetItem(t, ti)), ti),
                         FiIds(a.fi) \cap FiIds(b.fi))
    ELSE Err("Invalid ranks in product.")

\* -a: Zero and the literals negate themselves, anything else is -1 * a.
Neg(a, base) ==
    IF IsErr(a) \/ IsZero(a) THEN a
    ELSE IF IsScalarValue(a) THEN ScalarValue(a.k = "float_value", -a.id)
    ELSE Mul(IntValue(-1), a, base)
Add(a, b) == Sum(a, b)
Sub(a, b, base) == Sum(a, Neg(b, base))

\* a / b: a tensor is divided componentwise.
Div_(a, b, base) ==
    IF AnyErr(<<a, b>>) THEN FirstErr(<<a, b>>)
    ELSE IF a.sh # <<>>
    THEN LET ii == indices(Len(a.sh), base)
         IN as_tensor(Division(GetItem(a, ii), b), ii)
    ELSE Division(a, b)

Pow(a, b) == Power(a, b)

\* The number of indices a * b or a / b takes from the counter.
Used(a, b) == IF Len(a.sh) > Len(b.sh) THEN Len(a.sh) ELSE Len(b.sh)

\* ---- conditions, functions, restrictions

BinaryConditionKinds == {"gt", "lt", "ge", "le", "eq", "ne"}
ConditionKinds == BinaryConditionKinds \cup {"not_condition"}

BinaryCondition(k, a, b) ==
    IF AnyErr(<<a, b>>) THEN FirstErr(<<a, b>>)
    ELSE IF k \notin {"eq", "ne"} /\ ~(is_true_ufl_scalar(a) /\ is_true_ufl_scalar(b))
    THEN Err("Expecting scalar arguments.")
    ELSE Op(k, <<a, b>>, <<>>, {})

Conditional(c, t, f) ==
    IF AnyErr(<<c, t, f>>) THEN FirstErr(<<c, t, f>>)
    ELSE IF c.k \notin ConditionKinds THEN Err("Expecting condition as first argument.")
    ELSE IF t.sh # f.sh THEN Err("Shape mismatch between conditional branches.")
    ELSE IF t.fi # f.fi THEN Err("Free index mismatch between conditional branches.")
    ELSE Op("conditional", <<c, t, f>>, t.sh, t.fi)

\* ufl.operators.conditional(condition, true_value, false_value)
conditional(c, t, f) == Conditional(c, t, f)

MathFunctionKinds ==
    {"sqrt", "exp", "ln", "cos", "sin", "tan", "cosh", "sinh", "tanh",
     "acos", "asin", "atan", "erf"}

\* Value in thousandths of a function of zero that UFL folds at construction.
AtZero(k) == IF k \in {"exp", "cos", "cosh"} THEN 1000 ELSE 0

\* ufl.operators.sqrt, exp, ln, cos, ...: a node, folded for a zero operand.
MathFunction(k, f) ==
    IF IsErr(f) THEN f
    ELSE IF ~is_true_ufl_scalar(f) THEN Err("Expecting scalar argument.")
    ELSE IF IsZero(f) /\ k = "ln" THEN Err("math domain error")
    ELSE IF IsZero(f) /\ k \in {"sqrt", "exp", "cos", "sin", "cosh", "sinh"}
    THEN FloatValue(AtZero(k))
    ELSE Op(k, <<f>>, <<>>, {})

sign(f) == IF IsErr(f) THEN f ELSE Op("sign", <<f>>, f.sh, f.fi)

Abs(f) == IF IsErr(f) THEN f ELSE Op("abs", <<f>>, f.sh, f.fi)

\* f(side): Expr.__call__ with '+' or '-'.
Restricted(f, side) ==
    IF IsErr(f) THEN f
    ELSE Op(IF side = "+" THEN "positive_restricted" ELSE "negative_restricted",
            <<f>>, f.sh, f.fi)
SideOf(o) == IF o.k = "positive_restricted" THEN "+" ELSE "-"

cell_avg(f) == IF IsErr(f) THEN f ELSE Op("cell_avg", <<f>>, f.sh, f.fi)
facet_avg(f) == IF IsErr(f) THEN f ELSE Op("facet_avg", <<f>>, f.sh, f.fi)

MaxValue(a, b) == IF AnyErr(<<a, b>>) THEN FirstErr(<<a, b>>) ELSE Op("max_value", <<a, b>>, <<>>, {})
MinValue(a, b) == IF AnyErr(<<a, b>>) THEN FirstErr(<<a, b>>) ELSE Op("min_value", <<a, b>>, <<>>, {})

\* ---- tensors and variables

ListTensor(es) ==
    IF AnyErr(es) THEN FirstErr(es)
    ELSE IF \E p \in 1..Len(es) : es[p].sh # es[1].sh
    THEN Err("Non-matching shapes in ListTensor.")
    ELSE IF \E p \in 1..Len(es) : es[p].fi # es[1].fi
    THEN Err("Can't combine subtensor expressions with different sets of free indices.")
    ELSE Op("list_tensor", es, <<Len(es)>> \o es[1].sh, es[1].fi)

Variable(e, l) == IF IsErr(e) THEN e ELSE Op("variable", <<e, l>>, e.sh, e.fi)

Dot(a, b) ==
    IF AnyErr(<<a, b>>) THEN FirstErr(<<a, b>>)
    ELSE IF a.sh = <<>> \/ b.sh = <<>>
    THEN Err("Dot product requires non-scalar arguments.")
    ELSE IF a.sh[Len(a.sh)] # b.sh[1] THEN Err("Dimension mismatch in dot product.")
    ELSE IF IsZero(a) \/ IsZero(b) THEN Zero(Front(a.sh) \o Rest(b.sh), a.fi \cup b.fi)
    ELSE Op("dot", <<a, b>>, Front(a.sh) \o Rest(b.sh), a.fi \cup b.fi)

Inner(a, b) ==
    IF AnyErr(<<a, b>>) THEN FirstErr(<<a, b>>)
    ELSE IF a.sh # b.sh THEN Err("Shapes do not match in inner product.")
    ELSE IF IsZero(a) \/ IsZero(b) THEN Zero(<<>>, a.fi \cup b.fi)
    ELSE Op("inner", <<a, b>>, <<>>, a.fi \cup b.fi)

\* ---- derivative operators, reference-frame wrappers

Grad(f) ==
    IF IsErr(f) THEN f
    ELSE IF is_cellwise_constant(f) THEN Zero(f.sh \o <<GDim>>, f.fi)
    ELSE Op("grad", <<f>>, f.sh \o <<GDim>>, f.fi)

\* The gradient axis leads (the dispatcher reads it from ufl_shape[0]).
NablaGrad(f) ==
    IF IsErr(f) THEN f
    ELSE IF is_cellwise_constant(f) THEN Zero(<<GDim>> \o f.sh, f.fi)
    ELSE Op("nabla_grad", <<f>>, <<GDim>> \o f.sh, f.fi)

ReferenceGrad(f) ==
    IF IsErr(f) THEN f
    ELSE IF is_cellwise_constant(f) THEN Zero(f.sh \o <<TDim>>, f.fi)
    ELSE Op("reference_grad", <<f>>, f.sh \o <<TDim>>, f.fi)

Div(f) ==
    IF IsErr(f) THEN f
    ELSE IF f.fi # {} THEN Err("Free indices in the divergence argument is not allowed.")
    ELSE IF is_cellwise_constant(f) THEN Zero(Front(f.sh), {})
    ELSE Op("div", <<f>>, Front(f.sh), {})

CurlShape(sh) == IF sh = <<>> THEN <<2>> ELSE IF sh = <<2>> THEN <<>> ELSE <<3>>

Curl(f) ==
    IF IsErr(f) THEN f
    ELSE IF f.sh \notin {<<>>, <<2>>, <<3>>}
    THEN Err("Curl requires a scalar, 2D vector or 3D vector.")
    ELSE IF f.fi # {} THEN Err("Free indices in the curl argument is not allowed.")
    ELSE IF is_cellwise_constant(f) THEN Zero(CurlShape(f.sh), {})
    ELSE Op("curl", <<f>>, CurlShape(f.sh), {})

ReferenceValue(f) == IF IsErr(f) THEN f ELSE Op("reference_value", <<f>>, f.sh, f.fi)

ExprList(es) == IF AnyErr(es) THEN FirstErr(es) ELSE Op("expr_list", es, <<>>, {})
ExprMapping(es) == IF AnyErr(es) THEN FirstErr(es) ELSE Op("expr_mapping", es, <<>>, {})

VariableDerivative(f, v) ==
    IF AnyErr(<<f, v>>) THEN FirstErr(<<f, v>>)
    ELSE Op("variable_derivative", <<f, v>>, f.sh \o v.sh, f.fi)

CoefficientDerivative(f, w, v, cd) ==
    IF AnyErr(<<f, w, v, cd>>) THEN FirstErr(<<f, w, v, cd>>)
    ELSE Op("coefficient_derivative", <<f, w, v, cd>>, f.sh, f.fi)

DerivativeKinds ==
    {"grad", "nabla_grad", "div", "nabla_div", "curl", "reference_grad",
     "variable_derivative", "coefficient_derivative"}

\* ------------------------------------------- GenericDerivativeRuleset

\* ---- error checking for missing handlers and unexpected types

Generic_expr(o) ==
    Err("Missing differentiation handler for type " \o o.k \o ". Have you added a new type?")
Generic_unexpected(o) == Err("Unexpected type " \o o.k \o " in AD rules.")
Generic_override(o) == Err("Type " \o o.k \o " must be overridden in specialized AD rule set.")
Generic_derivative(o) ==
    Err("Unhandled derivative type " \o o.k \o ", nested differentiation has failed.")

non_differentiable_terminal(o) == o

\* ---- zeros with the right shapes

Generic_independent_terminal(rs, o) == Zero(o.sh \o rs.var_shape, {})
Generic_independent_operator(rs, o) == Zero(o.sh \o rs.var_shape, o.fi)
DivRuleset_independent_terminal(o) == Zero(Front(o.sh), {})
DivRuleset_independent_operator(o) == Zero(Front(o.sh), o.fi)

\* self.independent_terminal / self.independent_operator: DivRuleset
\* overrides both.
independent_terminal(rs, o) ==
    IF rs.name = "DivRuleset" THEN DivRuleset_independent_terminal(o)
    ELSE Generic_independent_terminal(rs, o)
independent_operator(rs, o) ==
    IF rs.name = "DivRuleset" THEN DivRuleset_independent_operator(o)
    ELSE Generic_independent_operator(rs, o)

\* ---- default rules for operators

Generic_variable(o, df, l) == df

\* Cind after "for i, j in zip(ii, jj): Cind[kk.index(j)] = i".
IndexIn(kk, j) == CHOOSE p \in 1..Len(kk) : kk[p] = j /\ \A q \in 1..(p-1) : kk[q] # j
RECURSIVE Untangle(_, _, _, _, _)
Untangle(Cind, kk, ii, jj, q) ==
    IF q > Len(ii) \/ q > Len(jj) THEN Cind
    ELSE Untangle([Cind EXCEPT ![IndexIn(kk, jj[q])] = ii[q]], kk, ii, jj, q + 1)

\* Ap is as_tensor(C[kk], jj) with every j of jj among kk.
CanUntangle(Ap) ==
    /\ Ap.k = "component_tensor"
    /\ Ap.ops[1].k = "indexed"
    /\ Range(Ap.ops[2].ix) \subseteq Range(Ap.ops[1].ops[2].ix)

Untangled(Ap, ii) ==
    LET B == Ap.ops[1]
        jj == Ap.ops[2].ix
        C == B.ops[1]
        kk == B.ops[2].ix
    IN Indexed(C, MultiIndex(Untangle(kk, kk, ii.ix, jj, 1)))

\* The generic approach shared by both indexed handlers.
IndexedGeneric(Ap, ii, n) ==
    LET r == Len(Ap.sh) - Len(ii.ix)
        kk == indices(r, n)
    IN IF r # 0 THEN as_tensor(Indexed(Ap, MultiIndex(ii.ix \o kk)), kk)
       ELSE Indexed(Ap, ii)

\* A zero operand derivative indexed like any other.
Generic_indexed_zero_indexed(rs, o, Ap, ii, n) ==
    IF IsErr(Ap) THEN Ap
    ELSE IF CanUntangle(Ap) THEN Untangled(Ap, ii)
    ELSE IndexedGeneric(Ap, ii, n)

Generic_indexed(rs, o, Ap, ii, n) ==
    IF IsErr(Ap) THEN Ap
    ELSE IF IsZero(Ap) THEN independent_operator(rs, o)
    ELSE IF CanUntangle(Ap) THEN Untangled(Ap, ii)
    ELSE IndexedGeneric(Ap, ii, n)

Generic_list_tensor(o, dops) == ListTensor(dops)

Generic_component_tensor(rs, o, Ap, ii, n) ==
    IF IsErr(Ap) THEN Ap
    ELSE IF IsZero(Ap) THEN independent_operator(rs, o)
    ELSE as_tensor(as_scalar(Ap, n), ii.ix \o as_scalar_indices(Ap, n))

\* ---- algebra operators

Generic_index_sum(o, Ap, i) == IndexSum(Ap, i)

Generic_sum(o, da, db) == Add(da, db)

Generic_product(o, da, db, n) ==
    LET a == o.ops[1]
        b == o.ops[2]
        ii == indices(Len(da.sh), n)
        sda == IF ii # <<>> THEN GetItem(da, ii) ELSE da
        sdb == IF ii # <<>> THEN GetItem(db, ii) ELSE db
        s == Sum(Product(sda, b), Product(a, sdb))
    IN IF AnyErr(<<da, db>>) THEN FirstErr(<<da, db>>)
       ELSE IF ii # <<>> THEN as_tensor(s, ii) ELSE s

\* Mutation: the denominator is not checked.
Generic_division_unchecked(o, fp, gp, n) ==
    LET f == o.ops[1]
        g == o.ops[2]
        gi == as_scalar_indices(gp, n)
        sgp == as_scalar(gp, n)
        n2 == n + Len(gi)
        prod == Mul(o, sgp, n2)
        o_gp == IF gi # <<>> THEN as_tensor(prod, gi) ELSE prod
    IN IF ~is_ufl_scalar(f) THEN Err("Not expecting nonscalar nominator")
       ELSE IF AnyErr(<<fp, gp>>) THEN FirstErr(<<fp, gp>>)
       ELSE Div_(Sub(fp, o_gp, n2), g, n2 + Len(o_gp.sh))

Generic_division(o, fp, gp, n) ==
    LET f == o.ops[1]
        g == o.ops[2]
        oi == as_scalar_indices(o, n)
        so == as_scalar(o, n)
        n1 == n + Len(oi)
        gi == as_scalar_indices(gp, n1)
        sgp == as_scalar(gp, n1)
        n2 == n1 + Len(gi)
        prod == Mul(so, sgp, n2)
        o_gp == IF oi \o gi # <<>> THEN as_tensor(prod, oi \o gi) ELSE prod
        n3 == n2 + Len(o_gp.sh)
    IN IF ~is_ufl_scalar(f) THEN Err("Not expecting nonscalar nominator")
       ELSE IF ~is_true_ufl_scalar(g) THEN Err("Not expecting nonscalar denominator")
       ELSE IF AnyErr(<<fp, gp>>) THEN FirstErr(<<fp, gp>>)
       ELSE Div_(Sub(fp, o_gp, n2), g, n3)

\* Mutation: the simplified branch is taken whatever the exponent's
\* derivative is.
Generic_power_constant_exponent(o, fp, gp, n) ==
    LET f == o.ops[1]
        g == o.ops[2]
        R == Len(fp.sh)
    IN IF ~is_true_ufl_scalar(f) THEN Err("Expecting scalar expression f in f**g.")
       ELSE IF ~is_true_ufl_scalar(g) THEN Err("Expecting scalar expression g in f**g.")
       ELSE IF AnyErr(<<fp, gp>>) THEN FirstErr(<<fp, gp>>)
       ELSE Mul(Mul(fp, g, n), Pow(f, Sum(g, IntValue(-1))), n + R)

Generic_power(o, fp, gp, n) ==
    LET f == o.ops[1]
        g == o.ops[2]
        R == Len(fp.sh)
        gm1 == Sum(g, IntValue(-1))
    IN IF ~is_true_ufl_scalar(f) THEN Err("Expecting scalar expression f in f**g.")
       ELSE IF ~is_true_ufl_scalar(g) THEN Err("Expecting scalar expression g in f**g.")
       ELSE IF AnyErr(<<fp, gp>>) THEN FirstErr(<<fp, gp>>)
       ELSE IF IsZero(gp)
       THEN Mul(Mul(fp, g, n), Pow(f, gm1), n + R)
       ELSE Mul(Pow(f, gm1),
                Add(Mul(g, fp, n), Mul(Mul(f, MathFunction("ln", f), n + R), gp, n + R)),
                n + 2 * R)

Generic_abs(o, df, n) == Mul(sign(o.ops[1]), df, n)

\* ---- math functions

Generic_math_function(o, df) == Err("Unknown math function.")

Generic_sqrt(o, fp, n) == Div_(fp, Mul(IntValue(2), o, n), n)

Generic_exp(o, fp, n) == Mul(fp, o, n)

\* Mutation: the logarithm of Zero has a zero derivative.
Generic_ln_zero_of_zero(o, fp, n) ==
    LET f == o.ops[1]
    IN IF IsZero(f) THEN Zero(fp.sh, fp.fi)
       ELSE Div_(fp, f, n)

Generic_ln(o, fp, n) ==
    LET f == o.ops[1]
    IN IF IsZero(f) THEN Err("Division by zero.")
       ELSE Div_(fp, f, n)

Generic_cos(o, fp, n) ==
    LET f == o.ops[1]
    IN Mul(fp, Neg(MathFunction("sin", f), n), n)

Generic_sin(o, fp, n) ==
    LET f == o.ops[1]
    IN Mul(fp, MathFunction("cos", f), n)

Generic_tan(o, fp, n) ==
    LET f == o.ops[1]
    IN Div_(Mul(FloatValue(2000), fp, n),
            Add(MathFunction("cos", Mul(FloatValue(2000), f, n)), FloatValue(1000)),
            n + Len(fp.sh))

Generic_cosh(o, fp, n) ==
    LET f == o.ops[1]
    IN Mul(fp, MathFunction("sinh", f), n)

Generic_sinh(o, fp, n) ==
    LET f == o.ops[1]
    IN Mul(fp, MathFunction("cosh", f), n)

sech(y, n) ==
    Div_(Mul(FloatValue(2000), MathFunction("cosh", y), n),
         Add(MathFunction("cosh", Mul(FloatValue(2000), y, n)), FloatValue(1000)), n)

Generic_tanh(o, fp, n) ==
    LET f == o.ops[1]
    IN Mul(fp, Pow(sech(f, n), IntValue(2)), n)

Generic_acos(o, fp, n) ==
    LET f == o.ops[1]
    IN Div_(Neg(fp, n),
            MathFunction("sqrt", Sum(FloatValue(1000), Neg(Pow(f, IntValue(2)), n))),
            n + Len(fp.sh))

Generic_asin(o, fp, n) ==
    LET f == o.ops[1]
    IN Div_(fp, MathFunction("sqrt", Sum(FloatValue(1000), Neg(Pow(f, IntValue(2)), n))), n)

Generic_atan(o, fp, n) ==
    LET f == o.ops[1]
    IN Div_(fp, Add(FloatValue(1000), Pow(f, IntValue(2))), n)

Generic_atan_2(o, fp, gp, n) ==
    LET f == o.ops[1]
        g == o.ops[2]
        R == Len(fp.sh)
    IN Div_(Sub(Mul(g, fp, n), Mul(f, gp, n + R), n + 2 * R),
            Add(Pow(f, IntValue(2)), Pow(g, IntValue(2))), n + 3 * R)

\* 2.0 / sqrt(pi) is the float 1.128...
Generic_erf(o, fp, n) ==
    LET f == o.ops[1]
    IN Mul(fp, Mul(FloatValue(1128), MathFunction("exp", Neg(Pow(f, IntValue(2)), n)), n), n)

\* ---- Bessel functions

BesselKinds == {"bessel_j", "bessel_y", "bessel_i", "bessel_k"}

\* ufl.operators.bessel_J, bessel_Y, bessel_I, bessel_K
BesselFunction(k, nu, f) ==
    IF AnyErr(<<nu, f>>) THEN FirstErr(<<nu, f>>)
    ELSE IF ~is_true_ufl_scalar(nu) \/ ~is_true_ufl_scalar(f)
    THEN Err("Expecting scalar nu and argument.")
    ELSE Op(k, <<nu, f>>, <<>>, {})

NuDerivativeSupported(nup) == nup = None \/ IsZero(nup)

Generic_bessel_j(o, nup, fp, n) ==
    LET nu == o.ops[1]
        f == o.ops[2]
        op == IF IsZero(nu) THEN Neg(BesselFunction("bessel_j", IntValue(1), f), n)
              ELSE Mul(FloatValue(500),
                       Sub(BesselFunction("bessel_j", Sum(nu, IntValue(-1)), f),
                           BesselFunction("bessel_j", Sum(nu, IntValue(1)), f), n), n)
    IN IF IsErr(nup) THEN nup
       ELSE IF ~NuDerivativeSupported(nup)
       THEN Err("Differentiation of bessel function w.r.t. nu is not supported.")
       ELSE Mul(op, fp, n)

Generic_bessel_y(o, nup, fp, n) ==
    LET nu == o.ops[1]
        f == o.ops[2]
        op == IF IsZero(nu) THEN Neg(BesselFunction("bessel_y", IntValue(1), f), n)
              ELSE Mul(FloatValue(500),
                       Sub(BesselFunction("bessel_y", Sum(nu, IntValue(-1)), f),
                           BesselFunction("bessel_y", Sum(nu, IntValue(1)), f), n), n)
    IN IF IsErr(nup) THEN nup
       ELSE IF ~NuDerivativeSupported(nup)
       THEN Err("Differentiation of bessel function w.r.t. nu is not supported.")
       ELSE Mul(op, fp, n)

Generic_bessel_i(o, nup, fp, n) ==
    LET nu == o.ops[1]
        f == o.ops[2]
        op == IF IsZero(nu) THEN BesselFunction("bessel_i", IntValue(1), f)
              ELSE Mul(FloatValue(500),
                       Add(BesselFunction("bessel_i", Sum(nu, IntValue(-1)), f),
                           BesselFunction("bessel_i", Sum(nu, IntValue(1)), f)), n)
    IN IF IsErr(nup) THEN nup
       ELSE IF ~NuDerivativeSupported(nup)
       THEN Err("Differentiation of bessel function w.r.t. nu is not supported.")
       ELSE Mul(op, fp, n)

\* The recurrence of bessel_k without the test of the order derivative.
Generic_bessel_k_unchecked(o, nup, fp, n) ==
    LET nu == o.ops[1]
        f == o.ops[2]
        op == IF IsZero(nu) THEN Neg(BesselFunction("bessel_k", IntValue(1), f), n)
              ELSE Mul(FloatValue(-500),
                       Add(BesselFunction("bessel_k", Sum(nu, IntValue(-1)), f),
                           BesselFunction("bessel_k", Sum(nu, IntValue(1)), f)), n)
    IN Mul(op, fp, n)

Generic_bessel_k(o, nup, fp, n) ==
    LET nu == o.ops[1]
        f == o.ops[2]
        op == IF IsZero(nu) THEN Neg(BesselFunction("bessel_k", IntValue(1), f), n)
              ELSE Mul(FloatValue(-500),
                       Add(BesselFunction("bessel_k", Sum(nu, IntValue(-1)), f),
                           BesselFunction("bessel_k", Sum(nu, IntValue(1)), f)), n)
    IN IF IsErr(nup) THEN nup
       ELSE IF ~NuDerivativeSupported(nup)
       THEN Err("Differentiation of bessel function w.r.t. nu is not supported.")
       ELSE Mul(op, fp, n)

\* ---- restrictions

\* Mutation: only a Zero is returned without its restriction.
Generic_restricted_zero_only(o, fp) ==
    IF IsErr(fp) THEN fp
    ELSE IF IsZero(fp) THEN fp
    ELSE Restricted(fp, SideOf(o))

Generic_restricted(o, fp) ==
    IF IsErr(fp) THEN fp
    ELSE IF IsConstantValue(fp) THEN fp
    ELSE Restricted(fp, SideOf(o))

\* ---- conditionals

Generic_binary_condition(o, dl, dr) == None

Generic_not_condition(o, c) == None

\* Mutation: the workaround branch is taken whatever the toggle says.
Generic_conditional_workaround(o, unused_dc, dt, df, workaround, n) ==
    IF AnyErr(<<dt, df>>) THEN FirstErr(<<dt, df>>)
    ELSE IF IsZero(dt) /\ IsZero(df) THEN dt
    ELSE LET c == o.ops[1]
             dc == conditional(c, IntValue(1), IntValue(0))
             R == Len(dt.sh)
         IN Add(Mul(dc, dt, n), Mul(Sub(FloatValue(1000), dc, n), df, n + R))

Generic_conditional(o, unused_dc, dt, df, workaround, n) ==
    IF AnyErr(<<dt, df>>) THEN FirstErr(<<dt, df>>)
    ELSE IF IsZero(dt) /\ IsZero(df) THEN dt
    ELSE IF workaround
    THEN LET c == o.ops[1]
             dc == conditional(c, IntValue(1), IntValue(0))
             R == Len(dt.sh)
         IN Add(Mul(dc, dt, n), Mul(Sub(FloatValue(1000), dc, n), df, n + R))
    ELSE LET c == o.ops[1]
         IN conditional(c, dt, df)

\* max with a non-strict comparison: a tie selects the first derivative.
Generic_max_value_tie_first(o, df, dg, n) ==
    LET f == o.ops[1]
        g == o.ops[2]
        dc == conditional(BinaryCondition("ge", f, g), IntValue(1), IntValue(0))
        R == Len(df.sh)
    IN Add(Mul(dc, df, n), Mul(Sub(FloatValue(1000), dc, n), dg, n + R))

Generic_max_value(o, df, dg, n) ==
    LET f == o.ops[1]
        g == o.ops[2]
        dc == conditional(BinaryCondition("gt", f, g), IntValue(1), IntValue(0))
        R == Len(df.sh)
    IN Add(Mul(dc, df, n), Mul(Sub(FloatValue(1000), dc, n), dg, n + R))

Generic_min_value(o, df, dg, n) ==
    LET f == o.ops[1]
        g == o.ops[2]
        dc == conditional(BinaryCondition("lt", f, g), IntValue(1), IntValue(0))
        R == Len(df.sh)
    IN Add(Mul(dc, df, n), Mul(Sub(FloatValue(1000), dc, n), dg, n + R))

\* ------------------------------------------------------------- rule sets

\* A rule set object.  name: the class; var_shape: _var_shape; Id: _Id;
\* variable: _variable; w, v: _w, _v; w2v, cd: the dictionaries _w2v and
\* _cd as sequences of <<key, value>> in insertion order; err: the error
\* its constructor raised, or None.
RuleSet(name, var_shape, Id, variable, w, v, w2v, cd, err) ==
    [name |-> name, var_shape |-> var_shape, Id |-> Id, variable |-> variable,
     w |-> w, v |-> v, w2v |-> w2v, cd |-> cd, err |-> err]

NoRules == RuleSet("none", <<>>, None, None, <<>>, <<>>, <<>>, <<>>, None)

\* dict.get(key): the value stored last under key, or None.
DictGet(d, key) ==
    IF \E p \in 1..Len(d) : d[p][1] = key
    THEN d[Max({p \in 1..Len(d) : d[p][1] = key})][2]
    ELSE None

\* The Jacobian-inverse contraction K[j,i]*ReferenceGrad(o)[r + (j,)] as a
\* tensor over r + (i,).
PullBack(K, o, n) ==
    LET R == Len(o.sh)
        r == indices(R, n)
        i == n + R + 1
        j == n + R + 2
    IN as_tensor(Mul(GetItem(K, <<j, i>>), GetItem(ReferenceGrad(o), r \o <<j>>), n + R + 2),
                 r \o <<i>>)

RECURSIVE ufl_domain(_)
ufl_domain(e) == IF IsTerminal(e) \/ Len(e.ops) = 0 THEN e.dom ELSE ufl_domain(e.ops[1])

IsInReferenceFrame(e) == e.k \in {"reference_value", "reference_grad"}

\* ---- GradRuleset

GradRuleset(geometric_dimension) ==
    RuleSet("GradRuleset", <<geometric_dimension>>, Identity(geometric_dimension),
            None, <<>>, <<>>, <<>>, <<>>, None)

GradRuleset_geometric_quantity(rs, o) ==
    IF is_cellwise_constant(o) THEN independent_terminal(rs, o) ELSE Grad(o)

GradRuleset_jacobian_inverse(rs, o, n) ==
    IF is_cellwise_constant(o) THEN independent_terminal(rs, o)
    ELSE IF ~IsTerminal(o) THEN Err("ReferenceValue can only wrap a terminal")
    ELSE PullBack(o, o, n)

GradRuleset_spatial_coordinate(rs, o) == rs.Id

GradRuleset_cell_coordinate(rs, o) == JacobianInverse(ufl_domain(o))

GradRuleset_coefficient(rs, o) ==
    IF is_cellwise_constant(o) THEN independent_terminal(rs, o) ELSE Grad(o)

GradRuleset_argument(rs, o) == Grad(o)

\* The contraction without the test of the wrapped operand.
GradRuleset_reference_value_unchecked(rs, o, n) ==
    PullBack(JacobianInverse(ufl_domain(o.ops[1])), o, n)

GradRuleset_reference_value(rs, o, n) ==
    LET f == o.ops[1]
    IN IF ~IsTerminal(f) THEN Err("ReferenceValue can only wrap a terminal")
       ELSE PullBack(JacobianInverse(ufl_domain(f)), o, n)

GradRuleset_reference_grad(rs, o, n) ==
    LET f == o.ops[1]
        valid_operand == IsInReferenceFrame(f) \/ f.k \in {"jacobian_inverse", "spatial_coordinate"}
    IN IF ~valid_operand THEN Err("ReferenceGrad can only wrap a reference frame type!")
       ELSE PullBack(JacobianInverse(ufl_domain(f)), o, n)

\* Grad(o) without the test of the operand of o.
GradRuleset_grad_unchecked(rs, o) == Grad(o)

GradRuleset_grad(rs, o) ==
    IF ~(o.ops[1].k = "grad" \/ IsTerminal(o.ops[1]))
    THEN Err("Expecting only grads applied to a terminal.")
    ELSE Grad(o)

GradRuleset_dot(o, grad_f, grad_g, n) ==
    LET f == o.ops[1]
        g == o.ops[2]
        nf == Len(f.sh) - 1
        ng == Len(g.sh) - 1
        fi == indices(nf, n)
        gi == indices(ng, n + nf)
        grad_index == indices(1, n + nf + ng)
        sum_index == indices(1, n + nf + ng + 1)
        b == n + nf + ng + 2
        term1 == Mul(GetItem(grad_f, fi \o sum_index \o grad_index), GetItem(g, sum_index \o gi), b)
        term2 == Mul(GetItem(f, fi \o sum_index), GetItem(grad_g, sum_index \o gi \o grad_index), b)
    IN as_tensor(Add(term1, term2), fi \o gi \o grad_index)

GradRuleset_inner(o, grad_f, grad_g, n) ==
    LET f == o.ops[1]
        g == o.ops[2]
        nf == Len(f.sh)
        ii == indices(nf, n)
        grad_index == indices(1, n + nf)
        b == n + nf + 1
        term1 == Mul(GetItem(grad_f, ii \o grad_index), GetItem(g, ii), b)
        term2 == Mul(GetItem(f, ii), GetItem(grad_g, ii \o grad_index), b)
    IN as_tensor(Add(term1, term2), grad_index)

\* ---- NablaGradRuleset

NablaGradRuleset(geometric_dimension) ==
    RuleSet("NablaGradRuleset", <<geometric_dimension>>, Identity(geometric_dimension),
            None, <<>>, <<>>, <<>>, <<>>, None)

NablaGradRuleset_geometric_quantity(rs, o) ==
    IF is_cellwise_constant(o) THEN independent_terminal(rs, o) ELSE NablaGrad(o)

NablaGradRuleset_spatial_coordinate(rs, o) == rs.Id

NablaGradRuleset_cell_coordinate(rs, o) == JacobianInverse(ufl_domain(o))

NablaGradRuleset_coefficient(rs, o) ==
    IF is_cellwise_constant(o) THEN independent_terminal(rs, o) ELSE NablaGrad(o)

NablaGradRuleset_argument(rs, o) == NablaGrad(o)

NablaGradRuleset_nabla_grad(rs, o) == NablaGrad(o)

NablaGradRuleset_dot(o, grad_f, grad_g, n) ==
    LET f == o.ops[1]
        g == o.ops[2]
        nf == Len(f.sh) - 1
        ng == Len(g.sh) - 1
        fi == indices(nf, n)
        gi == indices(ng, n + nf)
        grad_index == indices(1, n + nf + ng)
        sum_index == indices(1, n + nf + ng + 1)
        b == n + nf + ng + 2
        term1 == Mul(GetItem(grad_f, grad_index \o fi \o sum_index), GetItem(g, sum_index \o gi), b)
        term2 == Mul(GetItem(f, fi \o sum_index), GetItem(grad_g, grad_index \o sum_index \o gi), b)
    IN as_tensor(Add(term1, term2), grad_index \o fi \o gi)

NablaGradRuleset_inner(o, grad_f, grad_g, n) ==
    LET f == o.ops[1]
        g == o.ops[2]
        nf == Len(f.sh)
        ii == indices(nf, n)
        grad_index == indices(1, n + nf)
        b == n + nf + 1
        term1 == Mul(GetItem(grad_f, grad_index \o ii), GetItem(g, ii), b)
        term2 == Mul(GetItem(f, ii), GetItem(grad_g, grad_index \o ii), b)
    IN as_tensor(Add(term1, term2), grad_index)

\* ---- DivRuleset

DivRuleset == RuleSet("DivRuleset", <<>>, None, None, <<>>, <<>>, <<>>, <<>>, None)

DivRuleset_geometric_quantity(rs, o) ==
    IF is_cellwise_constant(o) THEN independent_terminal(rs, o) ELSE Div(o)

DivRuleset_coefficient(rs, o) ==
    IF is_cellwise_constant(o) THEN independent_terminal(rs, o) ELSE Div(o)

DivRuleset_argument(rs, o) == Div(o)

DivRuleset_grad(rs, o) == Div(o)

\* ---- CurlRuleset

CurlRuleset == RuleSet("CurlRuleset", <<>>, None, None, <<>>, <<>>, <<>>, <<>>, None)

CurlRuleset_geometric_quantity(rs, o) ==
    IF is_cellwise_constant(o) THEN independent_terminal(rs, o) ELSE Curl(o)

CurlRuleset_coefficient(rs, o) ==
    IF is_cellwise_constant(o) THEN independent_terminal(rs, o) ELSE Curl(o)

CurlRuleset_argument(rs, o) == Curl(o)

CurlRuleset_grad(rs, o) == independent_operator(rs, o)

\* ---- ReferenceGradRuleset

ReferenceGradRuleset(topological_dimension) ==
    RuleSet("ReferenceGradRuleset", <<topological_dimension>>,
            Identity(topological_dimension), None, <<>>, <<>>, <<>>, <<>>, None)

ReferenceGradRuleset_geometric_quantity(rs, o) ==
    IF is_cellwise_constant(o) THEN independent_terminal(rs, o) ELSE ReferenceGrad(o)

ReferenceGradRuleset_spatial_coordinate(rs, o) == ReferenceGrad(o)

ReferenceGradRuleset_cell_coordinate(rs, o) == rs.Id

ReferenceGradRuleset_reference_value(rs, o) ==
    IF ~IsTerminal(o.ops[1]) THEN Err("ReferenceValue can only wrap a terminal")
    ELSE ReferenceGrad(o)

\* A bare coefficient differentiated like a geometric quantity.
ReferenceGradRuleset_coefficient_kept(rs, o) ==
    IF is_cellwise_constant(o) THEN independent_terminal(rs, o) ELSE ReferenceGrad(o)

ReferenceGradRuleset_coefficient(rs, o) ==
    Err("Coefficient should be wrapped in ReferenceValue by now")

ReferenceGradRuleset_argument(rs, o) ==
    Err("Argument should be wrapped in ReferenceValue by now")

ReferenceGradRuleset_grad(rs, o) ==
    Err("Grad should have been transformed by this point, but got Grad.")

ReferenceGradRuleset_reference_grad(rs, o) ==
    IF ~(o.ops[1].k \in {"reference_grad", "reference_value"} \/ IsTerminal(o.ops[1]))
    THEN Err("Expecting only grads applied to a terminal.")
    ELSE ReferenceGrad(o)

\* ---- VariableRuleset

\* res after the loop "for d in sh" has run over sh[1..p].
RECURSIVE IdentityProduct(_, _, _)
IdentityProduct(sh, p, n) ==
    LET dij == GetItem(Identity(sh[p]), <<n + 2 * p - 1, n + 2 * p>>)
    IN IF p = 1 THEN dij ELSE Mul(IdentityProduct(sh, p - 1, n), dij, n + 2 * Len(sh))

_make_identity(sh, n) ==
    IF sh = <<>> THEN FloatValue(1000)
    ELSE IF Len(sh) = 1 THEN Identity(sh[1])
    ELSE LET ind1 == [p \in 1..Len(sh) |-> n + 2 * p - 1]
             ind2 == [p \in 1..Len(sh) |-> n + 2 * p]
         IN as_tensor(IdentityProduct(sh, Len(sh), n), ind1 \o ind2)

VariableRuleset(var, n) ==
    RuleSet("VariableRuleset", var.sh, _make_identity(var.sh, n), var, <<>>, <<>>, <<>>, <<>>,
            IF var.fi # {} THEN Err("Differentiation variable cannot have free indices.")
            ELSE None)

\* The identity also for a coefficient the variable is a label of.
VariableRuleset_coefficient_through_variable(rs, o) ==
    LET v == rs.variable
    IN IF o = v \/ (v.k = "variable" /\ v.ops[1] = o) THEN rs.Id
       ELSE independent_terminal(rs, o)

VariableRuleset_coefficient(rs, o) ==
    LET v == rs.variable
    IN IF v.k = "coefficient" /\ o = v THEN rs.Id
       ELSE independent_terminal(rs, o)

VariableRuleset_variable(rs, o, df, l) ==
    LET v == rs.variable
    IN IF v.k = "variable" /\ v.ops[2] = l THEN rs.Id
       ELSE df

VariableRuleset_grad(rs, o) ==
    IF ~(o.ops[1].k = "grad" \/ IsTerminal(o.ops[1]))
    THEN Err("Expecting only grads applied to a terminal.")
    ELSE independent_terminal(rs, o)

\* The form arguments modelled all have the identity element mapping.
VariableRuleset_reference_value(rs, o) ==
    LET v == rs.variable
    IN IF v.k = "coefficient" /\ o.ops[1] = v THEN rs.Id
       ELSE independent_terminal(rs, o)

VariableRuleset_reference_grad(rs, o) ==
    IF o.ops[1].k \notin {"reference_grad", "reference_value"}
    THEN Err("Unexpected argument to reference_grad.")
    ELSE independent_terminal(rs, o)

\* ---- GateauxDerivativeRuleset

\* {w: v for w, v in zip(self._w, self._v)}
Zip(w, v) == [p \in 1..(IF Len(w) < Len(v) THEN Len(w) ELSE Len(v)) |-> <<w[p], v[p]>>]

\* {cd[2*i]: cd[2*i+1] for i in range(len(cd)//2)}
Pairs(cd) == [p \in 1..(Len(cd) \div 2) |-> <<cd[2 * p - 1], cd[2 * p]>>]

GateauxDerivativeRuleset(coefficients, arguments, coefficient_derivatives) ==
    RuleSet("GateauxDerivativeRuleset", <<>>, None, None,
            coefficients.ops, arguments.ops,
            Zip(coefficients.ops, arguments.ops), Pairs(coefficient_derivatives.ops),
            IF coefficients.k # "expr_list" THEN Err("Expecting a ExprList of coefficients.")
            ELSE IF arguments.k # "expr_list" THEN Err("Expecting a ExprList of arguments.")
            ELSE IF coefficient_derivatives.k # "expr_mapping"
            THEN Err("Expecting a coefficient-coefficient ExprMapping.")
            ELSE None)

Gateaux_cell_avg(o, fp) == cell_avg(fp)

Gateaux_facet_avg(o, fp) == facet_avg(fp)

\* The coefficient-derivative branch: do/dw_j = do/dw_h : v, one entry.
Gateaux_dosum(rs, o, dos, n) ==
    LET do == dos[1]
        v == rs.v[1]
        oi == as_scalar_indices(do, n)
        so == as_scalar(do, n)
        rv == Len(v.sh)
        oi1 == IF rv = 0 THEN <<>> ELSE SubSeq(oi, 1, Len(oi) - rv)
        oi2 == IF rv = 0 THEN oi ELSE SubSeq(oi, Len(oi) - rv + 1, Len(oi))
        prod == Mul(so, GetItem(v, oi2), n + Len(oi))
    IN IF oi1 # <<>> THEN Add(Zero(o.sh, {}), as_tensor(prod, oi1))
       ELSE Add(Zero(o.sh, {}), prod)

\* Mutation: the coefficient-derivative relation is consulted before the
\* coefficient-to-argument map.
Gateaux_coefficient_relation_first(rs, o, n) ==
    LET do == DictGet(rs.w2v, o)
        dos == DictGet(rs.cd, o)
    IN IF dos # None /\ 1 = Len(rs.v) THEN Gateaux_dosum(rs, o, <<dos>>, n)
       ELSE IF do # None THEN do
       ELSE Zero(o.sh, {})

Gateaux_coefficient(rs, o, n) ==
    LET do == DictGet(rs.w2v, o)
        dos == DictGet(rs.cd, o)
    IN IF do # None THEN do
       ELSE IF dos = None THEN Zero(o.sh, {})
       ELSE IF 1 # Len(rs.v)
       THEN Err("Got a tuple of arguments, expecting a matching tuple of coefficient derivatives.")
       ELSE Gateaux_dosum(rs, o, <<dos>>, n)

Gateaux_reference_value(o) ==
    Err("Currently no support for ReferenceValue in CoefficientDerivative.")

Gateaux_reference_grad(o) ==
    Err("Currently no support for ReferenceGrad in CoefficientDerivative.")

\* grad, nabla_grad and curl return apply_derivatives(Grad(op)),
\* apply_derivatives(NablaGrad(op)), apply_derivatives(Curl(op)): `reapplied`
\* is what that call returned.

Gateaux_grad(rs, o, op, reapplied) ==
    IF IsErr(op) THEN op
    ELSE IF is_cellwise_constant(op) THEN independent_operator(rs, o)
    ELSE reapplied

Gateaux_nabla_grad(rs, o, op, reapplied) ==
    IF IsErr(op) THEN op
    ELSE IF is_cellwise_constant(op) THEN independent_operator(rs, o)
    ELSE reapplied

Gateaux_div(rs, o, op) ==
    IF IsErr(op) THEN op
    ELSE IF is_cellwise_constant(op) THEN independent_operator(rs, o)
    ELSE Div(op)

\* NablaDiv is not among the names the module imports.
Gateaux_nabla_div(rs, o, op) ==
    IF IsErr(op) THEN op
    ELSE IF is_cellwise_constant(op) THEN independent_operator(rs, o)
    ELSE Err("NameError: name 'NablaDiv' is not defined")

Gateaux_curl(rs, o, op, reapplied) ==
    IF IsErr(op) THEN op
    ELSE IF is_cellwise_constant(op) THEN independent_operator(rs, o)
    ELSE reapplied

Gateaux_dot(o, fp, gp) ==
    LET f == o.ops[1]
        g == o.ops[2]
    IN Add(Dot(fp, g), Dot(f, gp))

Gateaux_inner(o, fp, gp) ==
    LET f == o.ops[1]
        g == o.ops[2]
    IN Add(Inner(fp, g), Inner(f, gp))

\* ------------------------------------------------ MultiFunction dispatch

\* The handler names of a node kind, from its own class up to Expr.
Chain(k) ==
    CASE k \in {"int_value", "float_value"} -> <<k, "real_value", "scalar_value", "constant_value", "terminal", "expr">>
      [] k \in {"zero", "identity"} -> <<k, "constant_value", "terminal", "expr">>
      [] k \in {"coefficient", "argument"} -> <<k, "form_argument", "terminal", "expr">>
      [] k \in {"spatial_coordinate", "cell_coordinate", "jacobian_inverse", "cell_volume"} ->
            <<k, "geometric_cell_quantity", "geometric_quantity", "terminal", "expr">>
      [] k = "facet_normal" -> <<k, "geometric_facet_quantity", "geometric_quantity", "terminal", "expr">>
      [] k \in {"multi_index", "label"} -> <<k, "terminal", "expr">>
      [] k \in MathFunctionKinds -> <<k, "math_function", "operator", "expr">>
      [] k \in BesselKinds -> <<k, "bessel_function", "operator", "expr">>
      [] k \in {"positive_restricted", "negative_restricted"} -> <<k, "restricted", "operator", "expr">>
      [] k \in BinaryConditionKinds -> <<k, "binary_condition", "condition", "operator", "expr">>
      [] k = "not_condition" -> <<k, "condition", "operator", "expr">>
      [] k \in {"dot", "inner"} -> <<k, "compound_tensor_operator", "operator", "expr">>
      [] k \in {"grad", "nabla_grad", "div", "nabla_div", "curl", "reference_grad"} ->
            <<k, "compound_derivative", "derivative", "operator", "expr">>
      [] k \in {"variable_derivative", "coefficient_derivative"} -> <<k, "derivative", "operator", "expr">>
      [] OTHER -> <<k, "operator", "expr">>

\* The handler names each class defines itself.
GenericNames ==
    {"expr", "derivative", "label", "multi_index", "grad", "cell_avg", "facet_avg",
     "constant_value", "form_argument", "geometric_quantity", "variable", "indexed",
     "list_tensor", "component_tensor", "index_sum", "sum", "product", "division",
     "power", "abs", "math_function", "sqrt", "exp", "ln", "cos", "sin", "tan",
     "cosh", "sinh", "tanh", "acos", "asin", "atan", "atan_2", "erf",
     "bessel_j", "bessel_y", "bessel_i", "bessel_k", "restricted",
     "binary_condition", "not_condition", "conditional", "max_value", "min_value"}

OwnNames(cls) ==
    CASE cls = "GradRuleset" ->
            {"geometric_quantity", "jacobian_inverse", "spatial_coordinate", "cell_coordinate",
             "coefficient", "argument", "reference_value", "reference_grad", "grad",
             "cell_avg", "facet_avg", "dot", "inner"}
      [] cls = "NablaGradRuleset" ->
            {"geometric_quantity", "spatial_coordinate", "cell_coordinate", "coefficient",
             "argument", "nabla_grad", "cell_avg", "facet_avg", "dot", "inner"}
      [] cls \in {"DivRuleset", "CurlRuleset"} ->
            {"geometric_quantity", "coefficient", "argument", "grad", "cell_avg", "facet_avg"}
      [] cls = "ReferenceGradRuleset" ->
            {"geometric_quantity", "spatial_coordinate", "cell_coordinate", "reference_value",
             "coefficient", "argument", "grad", "reference_grad", "cell_avg", "facet_avg"}
      [] cls = "VariableRuleset" ->
            {"geometric_quantity", "argument", "coefficient", "variable", "grad",
             "reference_value", "reference_grad", "cell_avg", "facet_avg"}
      [] cls = "GateauxDerivativeRuleset" ->
            {"geometric_quantity", "cell_avg", "facet_avg", "argument", "coefficient",
             "reference_value", "reference_grad", "grad", "nabla_grad", "div", "nabla_div",
             "curl", "dot", "inner"}
      [] cls = "DerivativeRuleDispatcher" ->
            {"terminal", "derivative", "expr", "grad", "nabla_grad", "div", "curl",
             "reference_grad", "variable_derivative", "coefficient_derivative", "indexed"}
      [] OTHER -> {}

RuleSetClasses ==
    {"GradRuleset", "NablaGradRuleset", "DivRuleset", "CurlRuleset",
     "ReferenceGradRuleset", "VariableRuleset", "GateauxDerivativeRuleset"}

Defines(cls, h) ==
    h \in OwnNames(cls) \/ (cls \in RuleSetClasses /\ h \in GenericNames)

\* The handler name MultiFunction picks for kind k in an object of class cls.
HandlerName(cls, k) ==
    LET c == Chain(k)
    IN c[CHOOSE p \in 1..Len(c) : Defines(cls, c[p]) /\ \A q \in 1..(p-1) : ~Defines(cls, c[q])]

\* Unhandled derivative operators treated as independent of the variable.
Handler_derivative_independent(cls, k) ==
    LET h == HandlerName(cls, k)
        own == h \in OwnNames(cls)
    IN CASE own /\ h \in {"cell_avg", "facet_avg"} /\ cls # "GateauxDerivativeRuleset" ->
                <<"Generic", "independent_operator">>
         [] own /\ h \in {"geometric_quantity", "argument"}
                /\ cls \in {"VariableRuleset", "GateauxDerivativeRuleset"} ->
                <<"Generic", "independent_terminal">>
         [] own -> <<cls, h>>
         [] h \in {"grad", "cell_avg", "facet_avg", "form_argument", "geometric_quantity"} ->
                <<"Generic", "override">>
         [] h = "constant_value" -> <<"Generic", "independent_terminal">>
         [] h \in {"label", "multi_index"} -> <<"Generic", "non_differentiable_terminal">>
         [] h \in {"derivative", "expr"} /\ cls \in RuleSetClasses ->
                <<"Generic", "independent_operator">>
         [] OTHER -> <<"Generic", h>>

\* The function bound to that name: <<class that defines it, function>>.
Handler(cls, k) ==
    LET h == HandlerName(cls, k)
        own == h \in OwnNames(cls)
    IN CASE own /\ h \in {"cell_avg", "facet_avg"} /\ cls # "GateauxDerivativeRuleset" ->
                <<"Generic", "independent_operator">>
         [] own /\ h \in {"geometric_quantity", "argument"}
                /\ cls \in {"VariableRuleset", "GateauxDerivativeRuleset"} ->
                <<"Generic", "independent_terminal">>
         [] own -> <<cls, h>>
         [] h \in {"grad", "cell_avg", "facet_avg", "form_argument", "geometric_quantity"} ->
                <<"Generic", "override">>
         [] h = "constant_value" -> <<"Generic", "independent_terminal">>
         [] h \in {"label", "multi_index"} -> <<"Generic", "non_differentiable_terminal">>
         [] OTHER -> <<"Generic", h>>

\* Handlers declared with the node as their only argument: map_expr_dag
\* calls them without visiting the operands.
CutoffFunctions ==
    {"expr", "override", "derivative", "unexpected", "independent_terminal",
     "independent_operator", "non_differentiable_terminal", "terminal",
     "geometric_quantity", "jacobian_inverse", "spatial_coordinate", "cell_coordinate",
     "coefficient", "argument", "reference_value", "reference_grad", "grad", "nabla_grad"}

IsCutoff(fn) ==
    /\ fn[2] \in CutoffFunctions
    /\ ~(fn[1] = "GateauxDerivativeRuleset" /\ fn[2] \in {"grad", "nabla_grad"})
    /\ ~(fn[1] = "DerivativeRuleDispatcher" /\ fn[2] # "terminal" /\ fn[2] # "derivative")

\* The index counter a handler call starts from: above every index of the
\* node and of the operand results it is given.
FreshBase(o, args) == Max({MaxIdx(o)} \cup {MaxIdx(args[p]) : p \in 1..Len(args)})

\* Calling the rule-set function fn on node o with the results a of its
\* visited operands (none for a cutoff handler).
Call(rs, fn, o, a, n, workaround, reapplied) ==
    LET c == fn[1]
        h == fn[2]
    IN CASE c = "Generic" /\ h = "expr" -> Generic_expr(o)
         [] c = "Generic" /\ h = "override" -> Generic_override(o)
         [] c = "Generic" /\ h = "derivative" -> Generic_derivative(o)
         [] c = "Generic" /\ h = "non_differentiable_terminal" -> non_differentiable_terminal(o)
         [] c = "Generic" /\ h = "independent_terminal" -> Generic_independent_terminal(rs, o)
         [] c = "Generic" /\ h = "independent_operator" -> Generic_independent_operator(rs, o)
         [] c = "Generic" /\ h = "variable" -> Generic_variable(o, a[1], a[2])
         [] c = "Generic" /\ h = "indexed" -> Generic_indexed(rs, o, a[1], a[2], n)
         [] c = "Generic" /\ h = "list_tensor" -> Generic_list_tensor(o, a)
         [] c = "Generic" /\ h = "component_tensor" -> Generic_component_tensor(rs, o, a[1], a[2], n)
         [] c = "Generic" /\ h = "index_sum" -> Generic_index_sum(o, a[1], a[2])
         [] c = "Generic" /\ h = "sum" -> Generic_sum(o, a[1], a[2])
         [] c = "Generic" /\ h = "product" -> Generic_product(o, a[1], a[2], n)
         [] c = "Generic" /\ h = "division" -> Generic_division(o, a[1], a[2], n)
         [] c = "Generic" /\ h = "power" -> Generic_power(o, a[1], a[2], n)
         [] c = "Generic" /\ h = "abs" -> Generic_abs(o, a[1], n)
         [] c = "Generic" /\ h = "math_function" -> Generic_math_function(o, a[1])
         [] c = "Generic" /\ h = "sqrt" -> Generic_sqrt(o, a[1], n)
         [] c = "Generic" /\ h = "exp" -> Generic_exp(o, a[1], n)
         [] c = "Generic" /\ h = "ln" -> Generic_ln(o, a[1], n)
         [] c = "Generic" /\ h = "cos" -> Generic_cos(o, a[1], n)
         [] c = "Generic" /\ h = "sin" -> Generic_sin(o, a[1], n)
         [] c = "Generic" /\ h = "tan" -> Generic_tan(o, a[1], n)
         [] c = "Generic" /\ h = "cosh" -> Generic_cosh(o, a[1], n)
         [] c = "Generic" /\ h = "sinh" -> Generic_sinh(o, a[1], n)
         [] c = "Generic" /\ h = "tanh" -> Generic_tanh(o, a[1], n)
         [] c = "Generic" /\ h = "acos" -> Generic_acos(o, a[1], n)
         [] c = "Generic" /\ h = "asin" -> Generic_asin(o, a[1], n)
         [] c = "Generic" /\ h = "atan" -> Generic_atan(o, a[1], n)
         [] c = "Generic" /\ h = "atan_2" -> Generic_atan_2(o, a[1], a[2], n)
         [] c = "Generic" /\ h = "erf" -> Generic_erf(o, a[1], n)
         [] c = "Generic" /\ h = "bessel_j" -> Generic_bessel_j(o, a[1], a[2], n)
         [] c = "Generic" /\ h = "bessel_y" -> Generic_bessel_y(o, a[1], a[2], n)
         [] c = "Generic" /\ h = "bessel_i" -> Generic_bessel_i(o, a[1], a[2], n)
         [] c = "Generic" /\ h = "bessel_k" -> Generic_bessel_k(o, a[1], a[2], n)
         [] c = "Generic" /\ h = "restricted" -> Generic_restricted(o, a[1])
         [] c = "Generic" /\ h = "binary_condition" -> Generic_binary_condition(o, a[1], a[2])
         [] c = "Generic" /\ h = "not_condition" -> Generic_not_condition(o, a[1])
         [] c = "Generic" /\ h = "conditional" -> Generic_conditional(o, a[1], a[2], a[3], workaround, n)
         [] c = "Generic" /\ h = "max_value" -> Generic_max_value(o, a[1], a[2], n)
         [] c = "Generic" /\ h = "min_value" -> Generic_min_value(o, a[1], a[2], n)
         [] c = "GradRuleset" /\ h = "geometric_quantity" -> GradRuleset_geometric_quantity(rs, o)
         [] c = "GradRuleset" /\ h = "jacobian_inverse" -> GradRuleset_jacobian_inverse(rs, o, n)
         [] c = "GradRuleset" /\ h = "spatial_coordinate" -> GradRuleset_spatial_coordinate(rs, o)
         [] c = "GradRuleset" /\ h = "cell_coordinate" -> GradRuleset_cell_coordinate(rs, o)
         [] c = "GradRuleset" /\ h = "coefficient" -> GradRuleset_coefficient(rs, o)
         [] c = "GradRuleset" /\ h = "argument" -> GradRuleset_argument(rs, o)
         [] c = "GradRuleset" /\ h = "reference_value" -> GradRuleset_reference_value(rs, o, n)
         [] c = "GradRuleset" /\ h = "reference_grad" -> GradRuleset_reference_grad(rs, o, n)
         [] c = "GradRuleset" /\ h = "grad" -> GradRuleset_grad(rs, o)
         [] c = "GradRuleset" /\ h = "dot" -> GradRuleset_dot(o, a[1], a[2], n)
         [] c = "GradRuleset" /\ h = "inner" -> GradRuleset_inner(o, a[1], a[2], n)
         [] c = "NablaGradRuleset" /\ h = "geometric_quantity" -> NablaGradRuleset_geometric_quantity(rs, o)
         [] c = "NablaGradRuleset" /\ h = "spatial_coordinate" -> NablaGradRuleset_spatial_coordinate(rs, o)
         [] c = "NablaGradRuleset" /\ h = "cell_coordinate" -> NablaGradRuleset_cell_coordinate(rs, o)
         [] c = "NablaGradRuleset" /\ h = "coefficient" -> NablaGradRuleset_coefficient(rs, o)
         [] c = "NablaGradRuleset" /\ h = "argument" -> NablaGradRuleset_argument(rs, o)
         [] c = "NablaGradRuleset" /\ h = "nabla_grad" -> NablaGradRuleset_nabla_grad(rs, o)
         [] c = "NablaGradRuleset" /\ h = "dot" -> NablaGradRuleset_dot(o, a[1], a[2], n)
         [] c = "NablaGradRuleset" /\ h = "inner" -> NablaGradRuleset_inner(o, a[1], a[2], n)
         [] c = "DivRuleset" /\ h = "geometric_quantity" -> DivRuleset_geometric_quantity(rs, o)
         [] c = "DivRuleset" /\ h = "coefficient" -> DivRuleset_coefficient(rs, o)
         [] c = "DivRuleset" /\ h = "argument" -> DivRuleset_argument(rs, o)
         [] c = "DivRuleset" /\ h = "grad" -> DivRuleset_grad(rs, o)
         [] c = "CurlRuleset" /\ h = "geometric_quantity" -> CurlRuleset_geometric_quantity(rs, o)
         [] c = "CurlRuleset" /\ h = "coefficient" -> CurlRuleset_coefficient(rs, o)
         [] c = "CurlRuleset" /\ h = "argument" -> CurlRuleset_argument(rs, o)
         [] c = "CurlRuleset" /\ h = "grad" -> CurlRuleset_grad(rs, o)
         [] c = "ReferenceGradRuleset" /\ h = "geometric_quantity" -> ReferenceGradRuleset_geometric_quantity(rs, o)
         [] c = "ReferenceGradRuleset" /\ h = "spatial_coordinate" -> ReferenceGradRuleset_spatial_coordinate(rs, o)
         [] c = "ReferenceGradRuleset" /\ h = "cell_coordinate" -> ReferenceGradRuleset_cell_coordinate(rs, o)
         [] c = "ReferenceGradRuleset" /\ h = "reference_value" -> ReferenceGradRuleset_reference_value(rs, o)
         [] c = "ReferenceGradRuleset" /\ h = "coefficient" -> ReferenceGradRuleset_coefficient(rs, o)
         [] c = "ReferenceGradRuleset" /\ h = "argument" -> ReferenceGradRuleset_argument(rs, o)
         [] c = "ReferenceGradRuleset" /\ h = "grad" -> ReferenceGradRuleset_grad(rs, o)
         [] c = "ReferenceGradRuleset" /\ h = "reference_grad" -> ReferenceGradRuleset_reference_grad(rs, o)
         [] c = "VariableRuleset" /\ h = "coefficient" -> VariableRuleset_coefficient(rs, o)
         [] c = "VariableRuleset" /\ h = "variable" -> VariableRuleset_variable(rs, o, a[1], a[2])
         [] c = "VariableRuleset" /\ h = "grad" -> VariableRuleset_grad(rs, o)
         [] c = "VariableRuleset" /\ h = "reference_value" -> VariableRuleset_reference_value(rs, o)
         [] c = "VariableRuleset" /\ h = "reference_grad" -> VariableRuleset_reference_grad(rs, o)
         [] c = "GateauxDerivativeRuleset" /\ h = "cell_avg" -> Gateaux_cell_avg(o, a[1])
         [] c = "GateauxDerivativeRuleset" /\ h = "facet_avg" -> Gateaux_facet_avg(o, a[1])
         [] c = "GateauxDerivativeRuleset" /\ h = "coefficient" -> Gateaux_coefficient(rs, o, n)
         [] c = "GateauxDerivativeRuleset" /\ h = "reference_value" -> Gateaux_reference_value(o)
         [] c = "GateauxDerivativeRuleset" /\ h = "reference_grad" -> Gateaux_reference_grad(o)
         [] c = "GateauxDerivativeRuleset" /\ h = "grad" -> Gateaux_grad(rs, o, a[1], reapplied)
         [] c = "GateauxDerivativeRuleset" /\ h = "nabla_grad" -> Gateaux_nabla_grad(rs, o, a[1], reapplied)
         [] c = "GateauxDerivativeRuleset" /\ h = "div" -> Gateaux_div(rs, o, a[1])
         [] c = "GateauxDerivativeRuleset" /\ h = "nabla_div" -> Gateaux_nabla_div(rs, o, a[1])
         [] c = "GateauxDerivativeRuleset" /\ h = "curl" -> Gateaux_curl(rs, o, a[1], reapplied)
         [] c = "GateauxDerivativeRuleset" /\ h = "dot" -> Gateaux_dot(o, a[1], a[2])
         [] c = "GateauxDerivativeRuleset" /\ h = "inner" -> Gateaux_inner(o, a[1], a[2])
         [] OTHER -> Err("TypeError: handler called with the wrong arguments.")

\* ------------------------------------------------ map_expr_dag, big step

\* o._ufl_expr_reconstruct_(*ops): the node's class applied to new operands.
Reconstruct(o, ops) ==
    LET k == o.k
    IN CASE AnyErr(ops) -> FirstErr(ops)
         [] k = "indexed" -> Indexed(ops[1], ops[2])
         [] k = "component_tensor" -> ComponentTensor(ops[1], ops[2])
         [] k = "index_sum" -> IndexSum(ops[1], ops[2])
         [] k = "list_tensor" -> ListTensor(ops)
         [] k = "sum" -> Sum(ops[1], ops[2])
         [] k = "product" -> Product(ops[1], ops[2])
         [] k = "division" -> Division(ops[1], ops[2])
         [] k = "power" -> Power(ops[1], ops[2])
         [] k = "abs" -> Abs(ops[1])
         [] k = "sign" -> sign(ops[1])
         [] k \in MathFunctionKinds -> MathFunction(k, ops[1])
         [] k \in BesselKinds -> BesselFunction(k, ops[1], ops[2])
         [] k \in BinaryConditionKinds -> BinaryCondition(k, ops[1], ops[2])
         [] k = "conditional" -> Conditional(ops[1], ops[2], ops[3])
         [] k = "max_value" -> MaxValue(ops[1], ops[2])
         [] k = "min_value" -> MinValue(ops[1], ops[2])
         [] k \in {"positive_restricted", "negative_restricted"} -> Restricted(ops[1], SideOf(o))
         [] k = "cell_avg" -> cell_avg(ops[1])
         [] k = "facet_avg" -> facet_avg(ops[1])
         [] k = "variable" -> Variable(ops[1], ops[2])
         [] k = "dot" -> Dot(ops[1], ops[2])
         [] k = "inner" -> Inner(ops[1], ops[2])
         [] k = "reference_value" -> ReferenceValue(ops[1])
         [] k = "expr_list" -> ExprList(ops)
         [] k = "expr_mapping" -> ExprMapping(ops)
         [] OTHER -> Op(k, ops, o.sh, o.fi)

\* MultiFunction.reuse_if_untouched
reuse_if_untouched(o, ops) == IF ops = o.ops THEN o ELSE Reconstruct(o, ops)

\* The Gateaux handlers grad, nabla_grad and curl, given an operand
\* derivative that is not cellwise constant, call apply_derivatives.
IsReentrant(fn, a) ==
    /\ fn[1] = "GateauxDerivativeRuleset"
    /\ fn[2] \in {"grad", "nabla_grad", "curl"}
    /\ ~is_cellwise_constant(a[1])

\* The derivative operator of handler h applied to op again.
ReappliedOperator(h, op) ==
    CASE h = "grad" -> Grad(op)
      [] h = "nabla_grad" -> NablaGrad(op)
      [] h = "div" -> Div(op)
      [] OTHER -> Curl(op)

RECURSIVE MapDispatcher(_, _)

\* map_expr_dag(rules, e) for a rule set: post-order, operands first
\* unless the handler is a cutoff; an error aborts the traversal.
RECURSIVE MapRules(_, _, _)
MapRules(rs, e, workaround) ==
    LET fn == Handler(rs.name, e.k)
    IN IF IsErr(e) THEN e
       ELSE IF IsCutoff(fn) THEN Call(rs, fn, e, <<>>, FreshBase(e, <<>>), workaround, None)
       ELSE LET a == [p \in 1..Len(e.ops) |-> MapRules(rs, e.ops[p], workaround)]
                reapplied == IF IsReentrant(fn, a)
                             THEN MapDispatcher(ReappliedOperator(fn[2], a[1]), workaround)
                             ELSE None
            IN IF AnyErr(a) THEN FirstErr(a)
               ELSE Call(rs, fn, e, a, FreshBase(e, a), workaround, reapplied)

\* ---- DerivativeRuleDispatcher

Dispatcher_terminal(o) == o

Dispatcher_derivative(o) == Err("Missing derivative handler.")

Dispatcher_expr(o, ops) == reuse_if_untouched(o, ops)

\* One variable rule set kept for every variable derivative.
RulesFor_one_variable(o) ==
    CASE o.k = "grad" -> GradRuleset(o.sh[Len(o.sh)])
      [] o.k = "nabla_grad" -> NablaGradRuleset(o.sh[1])
      [] o.k = "div" -> DivRuleset
      [] o.k = "curl" -> CurlRuleset
      [] o.k = "reference_grad" -> ReferenceGradRuleset(o.sh[Len(o.sh)])
      [] o.k = "variable_derivative" -> VariableRuleset(Coefficient(1, <<>>, 0), MaxIdx(o))
      [] o.k = "coefficient_derivative" ->
            GateauxDerivativeRuleset(o.ops[2], o.ops[3], o.ops[4])
      [] OTHER -> NoRules

\* The rule set a derivative node is lowered with.
RulesFor(o) ==
    CASE o.k = "grad" -> GradRuleset(o.sh[Len(o.sh)])
      [] o.k = "nabla_grad" -> NablaGradRuleset(o.sh[1])
      [] o.k = "div" -> DivRuleset
      [] o.k = "curl" -> CurlRuleset
      [] o.k = "reference_grad" -> ReferenceGradRuleset(o.sh[Len(o.sh)])
      [] o.k = "variable_derivative" -> VariableRuleset(o.ops[2], MaxIdx(o))
      [] o.k = "coefficient_derivative" ->
            GateauxDerivativeRuleset(o.ops[2], o.ops[3], o.ops[4])
      [] OTHER -> NoRules

\* Without the reuse of an untouched node.
Dispatcher_indexed_rebuilt(o, Ap, ii, n) ==
    IF CanUntangle(Ap) THEN Untangled(Ap, ii)
    ELSE IndexedGeneric(Ap, ii, n)

\* grad, nabla_grad, div, curl, reference_grad, variable_derivative and
\* coefficient_derivative: build the rule set, map it over the operand f.
Dispatcher_lower(o, f, workaround) ==
    LET rules == RulesFor(o)
    IN IF rules.err # None THEN rules.err
       ELSE MapRules(rules, f, workaround)

\* Without the untangling of as_tensor(C[kk], jj)[ii].
Dispatcher_indexed_generic_only(o, Ap, ii, n) ==
    IF Ap = o.ops[1] THEN o
    ELSE LET r == Len(Ap.sh) - Len(ii.ix)
             kk == indices(r, n)
         IN IF r # 0 THEN as_tensor(Indexed(Ap, MultiIndex(ii.ix \o kk)), kk)
            ELSE Indexed(Ap, ii)

Dispatcher_indexed(o, Ap, ii, n) ==
    IF Ap = o.ops[1] THEN o
    ELSE LET B == Ap.ops[1]
             jj == Ap.ops[2].ix
             C == B.ops[1]
             kk == B.ops[2].ix
             r == Len(Ap.sh) - Len(ii.ix)
             ll == indices(r, n)
         IN IF /\ Ap.k = "component_tensor"
               /\ B.k = "indexed"
               /\ \A q \in 1..Len(jj) : \E p \in 1..Len(kk) : kk[p] = jj[q]
            THEN Indexed(C, MultiIndex(Untangle(kk, kk, ii.ix, jj, 1)))
            ELSE IF r # 0 THEN as_tensor(Indexed(Ap, MultiIndex(ii.ix \o ll)), ll)
            ELSE Indexed(Ap, ii)

DispatcherCall(fn, o, a, n, workaround) ==
    LET h == fn[2]
    IN CASE h = "terminal" -> Dispatcher_terminal(o)
         [] h = "derivative" -> Dispatcher_derivative(o)
         [] h = "expr" -> Dispatcher_expr(o, a)
         [] h = "indexed" -> Dispatcher_indexed(o, a[1], a[2], n)
         [] OTHER -> Dispatcher_lower(o, a[1], workaround)

\* map_expr_dag(DerivativeRuleDispatcher(), e)
MapDispatcher(e, workaround) ==
    LET fn == Handler("DerivativeRuleDispatcher", e.k)
    IN IF IsErr(e) THEN e
       ELSE IF IsCutoff(fn) THEN DispatcherCall(fn, e, <<>>, FreshBase(e, <<>>), workaround)
       ELSE LET a == [p \in 1..Len(e.ops) |-> MapDispatcher(e.ops[p], workaround)]
            IN IF AnyErr(a) THEN FirstErr(a)
               ELSE DispatcherCall(fn, e, a, FreshBase(e, a), workaround)

apply_derivatives(expression) == MapDispatcher(expression, CONDITIONAL_WORKAROUND)

\* ------------------------------------------------------------ inputs

\* Form arguments and geometry the input expressions are built from.
uS == Coefficient(1, <<>>, 0)
uC == Coefficient(2, <<>>, 1)
uV == Coefficient(3, <<VDim>>, 0)
uG == Coefficient(4, <<GDim>>, 0)
uH == Coefficient(5, <<>>, 0)
uK == Coefficient(11, <<GDim>>, 1)
vS == Argument(6, <<>>, 0)
vV == Argument(7, <<VDim>>, 0)
vG == Argument(8, <<GDim>>, 0)
xx == SpatialCoordinate(1)
mi_i == MultiIndex(<<1>>)
mi_0 == MultiIndex(<<0>>)
two == IntValue(2)
half == FloatValue(500)

\* Scalar-valued integrand bodies over the coefficients.
ScalarBodies ==
    {uS, uC, uH, vS, two, Zero(<<>>, {}),
     Sum(uS, uC), Sum(uS, uH), Product(uS, uS), Product(uS, uH), Product(two, uS),
     Division(uS, uC), Division(uS, uH), Division(uC, uS),
     Power(uS, two), Power(uS, uH), Power(uS, uC), Power(two, uS),
     Abs(uS), sign(uS),
     MathFunction("sqrt", uS), MathFunction("exp", uS), MathFunction("ln", uS),
     MathFunction("cos", uS), MathFunction("sin", uS), MathFunction("tan", uS),
     MathFunction("cosh", uS), MathFunction("sinh", uS), MathFunction("tanh", uS),
     MathFunction("acos", uS), MathFunction("asin", uS), MathFunction("atan", uS),
     MathFunction("erf", uS), MathFunction("ln", Product(uS, uH)),
     Op("atan_2", <<uS, uH>>, <<>>, {}),
     BesselFunction("bessel_j", IntValue(1), uS), BesselFunction("bessel_y", Zero(<<>>, {}), uS),
     BesselFunction("bessel_i", IntValue(1), uS), BesselFunction("bessel_k", Zero(<<>>, {}), uS),
     BesselFunction("bessel_j", half, uS),
     BesselFunction("bessel_j", uH, uS), BesselFunction("bessel_y", uH, uS),
     BesselFunction("bessel_i", uH, uS), BesselFunction("bessel_k", uH, uS),
     Restricted(uS, "+"), Restricted(uC, "-"), Restricted(Product(uS, uH), "-"),
     Conditional(BinaryCondition("gt", uS, uC), uS, Neg(uS, 0)),
     Conditional(BinaryCondition("lt", uS, uH), uC, two),
     Conditional(Op("not_condition", <<BinaryCondition("eq", uS, uC)>>, <<>>, {}), uS, uH),
     MaxValue(uS, uH), MinValue(uS, uC),
     Variable(Product(uS, uS), Label(1)), Variable(uS, Label(2)),
     cell_avg(uS), facet_avg(uS),
     Indexed(uV, mi_0), Indexed(uG, MultiIndex(<<1>>)),
     IndexSum(Product(Indexed(uG, mi_i), Indexed(uG, mi_i)), mi_i),
     Indexed(ComponentTensor(Product(uS, Indexed(uG, mi_i)), mi_i), MultiIndex(<<2>>)),
     Indexed(ListTensor(<<uS, uH>>), mi_0),
     Dot(uG, uG), Inner(uV, uV), Inner(uG, xx),
     Indexed(xx, mi_0), Indexed(Indexed(JacobianInverse(1), MultiIndex(<<0, 1>>)), MultiIndex(<<>>)),
     CellVolume(1), Product(uS, Indexed(FacetNormal(1), mi_0)),
     ReferenceValue(uS), ReferenceValue(uC), Product(uH, ReferenceValue(uS)),
     Indexed(uK, mi_0), Product(uC, Indexed(uK, mi_0))}

\* Vector- and tensor-valued bodies.
TensorBodies ==
    {uV, uG, xx, CellCoordinate(1), Identity(GDim),
     ListTensor(<<uS, uH>>), ListTensor(<<uS, uC, uH>>), ListTensor(<<two, uS>>),
     ComponentTensor(Product(uS, Indexed(uG, mi_i)), mi_i),
     ComponentTensor(Indexed(uG, mi_i), mi_i),
     ComponentTensor(Product(uC, Indexed(uK, mi_i)), mi_i),
     ComponentTensor(Product(uS, Indexed(uK, mi_i)), mi_i),
     ComponentTensor(Product(Indexed(uG, mi_i), Indexed(uV, MultiIndex(<<2>>))),
                     MultiIndex(<<1, 2>>)),
     Abs(uG), Restricted(uG, "+"), Restricted(xx, "-"), Variable(uG, Label(3)),
     Sum(uG, xx), Conditional(BinaryCondition("gt", uS, uC), uG, xx),
     Grad(uS), Grad(uG), Grad(uV), Grad(Product(uS, uH)), Grad(Grad(uS)),
     Grad(xx), Grad(CellCoordinate(1)),
     ReferenceGrad(ReferenceValue(uS)), ReferenceValue(uG),
     Dot(Grad(uG), uG), JacobianInverse(0), JacobianInverse(1)}

\* Nodes no checked constructor returns but the handlers guard against.
UncheckedBodies ==
    {Op("power", <<uG, two>>, <<>>, {}), Op("power", <<uS, uG>>, <<>>, {}),
     Op("power", <<Indexed(uG, mi_i), two>>, <<>>, {<<1, GDim>>}),
     Op("division", <<uG, uS>>, <<GDim>>, {}), Op("division", <<uS, uG>>, <<>>, {}),
     Op("division", <<uS, Indexed(uG, mi_i)>>, <<>>, {<<1, GDim>>}),
     Op("ln", <<Zero(<<>>, {})>>, <<>>, {}),
     Op("nabla_div", <<uG>>, <<>>, {}),
     Op("reference_value", <<Product(uS, uH)>>, <<>>, {})}

Bodies == {e \in ScalarBodies \cup TensorBodies \cup UncheckedBodies : ~IsErr(e)}

\* Differentiation variables of the variable derivatives.
DiffVariables == {Variable(uS, Label(2)), Variable(uG, Label(3)), uS, uG, uC}

\* (w, v, cd) of the coefficient derivatives: matching tuples, a coefficient
\* relation duH/duS, a repeated coefficient, a missing argument, and the
\* ListTensor argument derivative(a, u[0], w) produces.
duH == Coefficient(9, <<>>, 0)
uT == Coefficient(10, <<VDim, GDim>>, 0)
GateauxSetups ==
    {<<ExprList(<<uS>>), ExprList(<<vS>>), ExprMapping(<<>>)>>,
     <<ExprList(<<uG>>), ExprList(<<vG>>), ExprMapping(<<>>)>>,
     <<ExprList(<<uS, uH>>), ExprList(<<vS, Product(two, vS)>>), ExprMapping(<<>>)>>,
     <<ExprList(<<uS>>), ExprList(<<vS>>), ExprMapping(<<uH, duH>>)>>,
     <<ExprList(<<uS>>), ExprList(<<vS>>), ExprMapping(<<uS, duH>>)>>,
     <<ExprList(<<uS, uS>>), ExprList(<<vS, Product(two, vS)>>), ExprMapping(<<>>)>>,
     <<ExprList(<<uS, uH>>), ExprList(<<vS>>), ExprMapping(<<>>)>>,
     <<ExprList(<<uV>>), ExprList(<<ListTensor(<<vS, Zero(<<>>, {})>>)>>), ExprMapping(<<>>)>>}

\* Derivative operators that occur inside a coefficient derivative.
GateauxBodies ==
    {Grad(uS), Grad(uG), NablaGrad(uS), NablaGrad(uV), Div(uG), Div(Grad(uS)), Curl(uG), Curl(uS),
     Op("nabla_div", <<uG>>, <<>>, {}), Grad(Product(uS, uH)), Div(ListTensor(<<uS, uH, uC>>)),
     Div(uV), Curl(uV), Inner(Grad(uS), Grad(uS)), Product(uS, Div(uG))}

\* A derivative operator applied to every body.
Wrapped ==
    {Grad(b) : b \in Bodies} \cup {NablaGrad(b) : b \in Bodies}
    \cup {ReferenceGrad(b) : b \in Bodies}
    \cup {Div(b) : b \in Bodies} \cup {Curl(b) : b \in Bodies}
    \cup {VariableDerivative(b, x) : b \in Bodies, x \in DiffVariables}
    \cup {VariableDerivative(b, uT) : b \in {uT, uS, vS, xx, Product(uS, uH)}}
    \cup {VariableDerivative(b, Indexed(uG, mi_i)) : b \in {uS, Product(uS, uH)}}
    \cup {CoefficientDerivative(b, s[1], s[2], s[3]) : b \in Bodies \cup GateauxBodies, s \in GateauxSetups}

\* Derivative operators below other operators, and expressions without any.
Embedded ==
    {Sum(Grad(uS), Grad(Product(uS, uH))), Indexed(Grad(Product(uS, uH)), mi_0),
     Product(uS, Indexed(Grad(uS), mi_i)), Indexed(Grad(uG), MultiIndex(<<1, 2>>)),
     Indexed(Grad(Sum(uG, xx)), MultiIndex(<<1, 0>>)),
     Inner(Grad(uS), Grad(uH)), Sum(Div(uG), Curl(uV)), Product(uS, uH), uS,
     ListTensor(<<Div(uG), Div(Grad(uS))>>),
     Sum(Product(uS, uH), Product(uS, uH)), Sum(Div(uG), Div(uG)),
     Indexed(uG, mi_0), Sum(uS, Indexed(uG, mi_0)), Sum(Indexed(uG, mi_0), Div(uG)),
     Indexed(Grad(Indexed(uG, mi_i)), mi_0),
     Indexed(ComponentTensor(Indexed(uT, MultiIndex(<<1, 2>>)), MultiIndex(<<2, 1>>)),
             MultiIndex(<<0, 0>>))}

Inputs == {e \in Wrapped \cup Embedded : ~IsErr(e)}

\* ------------------------------------------------------ state machine

\* expression: the argument of apply_derivatives.  travs: the running
\* map_expr_dag calls, innermost last, each with its rule object and its
\* cache of visited nodes.  stack: the nodes being visited, innermost last;
\* t: the traversal a frame belongs to, a: the results of its operands so
\* far, st: "visit", "wait" (its handler runs a nested traversal) or "got"
\* (the nested traversal returned r).  result: what apply_derivatives
\* returned or raised.  call: the handler call that returned last.
VARIABLES expression, travs, stack, result, pc, call

vars == <<CONDITIONAL_WORKAROUND, expression, travs, stack, result, pc, call>>

DerivativeRuleDispatcher ==
    RuleSet("DerivativeRuleDispatcher", <<>>, None, None, <<>>, <<>>, <<>>, <<>>, None)

Frame(t, o) == [t |-> t, o |-> o, a |-> <<>>, st |-> "visit", r |-> None]
Traversal(rules) == [rules |-> rules, memo |-> {}]
NoCall == [rs |-> NoRules, fn |-> <<"none", "none">>, o |-> None, a |-> <<>>, ret |-> None]

Init ==
    /\ CONDITIONAL_WORKAROUND = FALSE
    /\ expression \in Inputs
    /\ travs = <<Traversal(DerivativeRuleDispatcher)>>
    /\ stack = <<Frame(1, expression)>>
    /\ result = None
    /\ pc = "run"
    /\ call = NoCall

Top == stack[Len(stack)]
TopRules == travs[Top.t].rules
TopFn == Handler(TopRules.name, Top.o.k)
TopMemo == travs[Top.t].memo
NextOperand == Top.o.ops[Len(Top.a) + 1]
Cached(o) == \E p \in TopMemo : p[1] = o
CacheGet(o) == (CHOOSE p \in TopMemo : p[1] = o)[2]

\* The top node's operands are all visited, or its handler is a cutoff.
Ready ==
    /\ pc = "run"
    /\ Top.st = "visit"
    /\ IsCutoff(TopFn) \/ Len(Top.a) = Len(Top.o.ops)

InDispatcher == TopRules.name = "DerivativeRuleDispatcher"

\* The exception is swallowed and the node comes back untransformed.
Raise_swallowed(fn, a, r) ==
    /\ call' = [rs |-> TopRules, fn |-> fn, o |-> Top.o, a |-> a, ret |-> r]
    /\ pc' = "done"
    /\ result' = Top.o
    /\ stack' = <<>>
    /\ travs' = <<>>
    /\ UNCHANGED <<CONDITIONAL_WORKAROUND, expression>>

\* An exception leaves every running traversal.
Raise(fn, a, r) ==
    /\ call' = [rs |-> TopRules, fn |-> fn, o |-> Top.o, a |-> a, ret |-> r]
    /\ pc' = "error"
    /\ result' = r
    /\ stack' = <<>>
    /\ travs' = <<>>
    /\ UNCHANGED <<CONDITIONAL_WORKAROUND, expression>>

\* The handler of the top node returns r: the traversal caches it and
\* hands it to the parent node, to the handler that started the traversal,
\* or to the caller of apply_derivatives.
Return(fn, a, r) ==
    IF IsErr(r) THEN Raise(fn, a, r)
    ELSE LET below == Front(stack)
             isroot == Len(stack) = 1 \/ below[Len(below)].t # Top.t
         IN /\ call' = [rs |-> TopRules, fn |-> fn, o |-> Top.o, a |-> a, ret |-> r]
            /\ travs' = IF isroot THEN Front(travs)
                        ELSE [travs EXCEPT ![Top.t].memo = @ \cup {<<Top.o, r>>}]
            /\ stack' = IF below = <<>> THEN <<>>
                        ELSE IF isroot
                        THEN [below EXCEPT ![Len(below)] = [@ EXCEPT !.st = "got", !.r = r]]
                        ELSE [below EXCEPT ![Len(below)] = [@ EXCEPT !.a = Append(@, r)]]
            /\ result' = IF below = <<>> THEN r ELSE result
            /\ pc' = IF below = <<>> THEN "done" ELSE pc
            /\ UNCHANGED <<CONDITIONAL_WORKAROUND, expression>>

\* The handler of the top node runs map_expr_dag(rules, e) and waits.
Nest(rules, e) ==
    /\ travs' = Append(travs, Traversal(rules))
    /\ stack' = Append([stack EXCEPT ![Len(stack)].st = "wait"], Frame(Len(travs) + 1, e))
    /\ UNCHANGED <<CONDITIONAL_WORKAROUND, expression, result, pc, call>>

\* A traversal without the memo lookup: a shared operand is visited again.
Visit_again ==
    /\ pc = "run"
    /\ Top.st = "visit"
    /\ ~IsCutoff(TopFn)
    /\ Len(Top.a) < Len(Top.o.ops)
    /\ stack' = Append(stack, Frame(Top.t, NextOperand))
    /\ UNCHANGED <<CONDITIONAL_WORKAROUND, expression, travs, result, pc, call>>

\* map_expr_dag: visit the next operand of the top node.
Visit ==
    /\ pc = "run"
    /\ Top.st = "visit"
    /\ ~IsCutoff(TopFn)
    /\ Len(Top.a) < Len(Top.o.ops)
    /\ ~Cached(NextOperand)
    /\ stack' = Append(stack, Frame(Top.t, NextOperand))
    /\ UNCHANGED <<CONDITIONAL_WORKAROUND, expression, travs, result, pc, call>>

\* map_expr_dag: the next operand was visited before in this traversal.
Revisit ==
    /\ pc = "run"
    /\ Top.st = "visit"
    /\ ~IsCutoff(TopFn)
    /\ Len(Top.a) < Len(Top.o.ops)
    /\ Cached(NextOperand)
    /\ stack' = [stack EXCEPT ![Len(stack)].a = Append(@, CacheGet(NextOperand))]
    /\ UNCHANGED <<CONDITIONAL_WORKAROUND, expression, travs, result, pc, call>>

\* ---- DerivativeRuleDispatcher handlers

Dispatcher_terminal_step ==
    /\ Ready /\ InDispatcher /\ TopFn[2] = "terminal"
    /\ Return(TopFn, <<>>, Dispatcher_terminal(Top.o))

Dispatcher_derivative_step ==
    /\ Ready /\ InDispatcher /\ TopFn[2] = "derivative"
    /\ Return(TopFn, <<>>, Dispatcher_derivative(Top.o))

Dispatcher_expr_step ==
    /\ Ready /\ InDispatcher /\ TopFn[2] = "expr"
    /\ Return(TopFn, Top.a, Dispatcher_expr(Top.o, Top.a))

Dispatcher_indexed_step ==
    /\ Ready /\ InDispatcher /\ TopFn[2] = "indexed"
    /\ Return(TopFn, Top.a, Dispatcher_indexed(Top.o, Top.a[1], Top.a[2], FreshBase(Top.o, Top.a)))

\* grad, nabla_grad, div, curl, reference_grad, variable_derivative and
\* coefficient_derivative build their rule set and map it over operand f.
Lower(h) ==
    /\ Ready /\ InDispatcher /\ TopFn[2] = h
    /\ LET rules == RulesFor(Top.o)
       IN IF rules.err # None THEN Raise(TopFn, Top.a, rules.err)
          ELSE Nest(rules, Top.a[1])

Dispatcher_grad == Lower("grad")
Dispatcher_nabla_grad == Lower("nabla_grad")
Dispatcher_div == Lower("div")
Dispatcher_curl == Lower("curl")
Dispatcher_reference_grad == Lower("reference_grad")
Dispatcher_variable_derivative == Lower("variable_derivative")
Dispatcher_coefficient_derivative == Lower("coefficient_derivative")

\* The result of a lowered derivative handed to a new dispatcher pass
\* instead of being returned.
Dispatcher_lowered_rewritten ==
    /\ pc = "run"
    /\ Top.st = "got"
    /\ InDispatcher
    /\ Nest(DerivativeRuleDispatcher, Top.r)

\* The traversal a dispatcher handler started returned: so does the handler.
Dispatcher_lowered ==
    /\ pc = "run"
    /\ Top.st = "got"
    /\ InDispatcher
    /\ Return(TopFn, Top.a, Top.r)

\* ---- rule-set handlers

Reentrant == ~InDispatcher /\ IsReentrant(TopFn, Top.a)

\* grad, nabla_grad or curl of the Gateaux rule set calls apply_derivatives.
Gateaux_reenter ==
    /\ Ready /\ Reentrant
    /\ LET e == ReappliedOperator(TopFn[2], Top.a[1])
       IN IF IsErr(e) THEN Raise(TopFn, Top.a, e)
          ELSE Nest(DerivativeRuleDispatcher, e)

\* apply_derivatives returned to it: the handler returns that.
Gateaux_reentered ==
    /\ pc = "run"
    /\ Top.st = "got"
    /\ ~InDispatcher
    /\ Return(TopFn, Top.a,
              Call(TopRules, TopFn, Top.o, Top.a, FreshBase(Top.o, Top.a),
                   CONDITIONAL_WORKAROUND, Top.r))

\* Every other handler call of a rule set of class cls.
Rules(cls) ==
    /\ Ready /\ ~InDispatcher /\ ~Reentrant
    /\ TopRules.name = cls
    /\ Return(TopFn, Top.a,
              Call(TopRules, TopFn, Top.o, Top.a, FreshBase(Top.o, Top.a),
                   CONDITIONAL_WORKAROUND, None))

GradRuleset_step == Rules("GradRuleset")
NablaGradRuleset_step == Rules("NablaGradRuleset")
DivRuleset_step == Rules("DivRuleset")
CurlRuleset_step == Rules("CurlRuleset")
ReferenceGradRuleset_step == Rules("ReferenceGradRuleset")
VariableRuleset_step == Rules("VariableRuleset")
GateauxDerivativeRuleset_step == Rules("GateauxDerivativeRuleset")

Next ==
    \/ Visit
    \/ Revisit
    \/ Dispatcher_terminal_step
    \/ Dispatcher_derivative_step
    \/ Dispatcher_expr_step
    \/ Dispatcher_indexed_step
    \/ Dispatcher_grad
    \/ Dispatcher_nabla_grad
    \/ Dispatcher_div
    \/ Dispatcher_curl
    \/ Dispatcher_reference_grad
    \/ Dispatcher_variable_derivative
    \/ Dispatcher_coefficient_derivative
    \/ Dispatcher_lowered
    \/ Gateaux_reenter
    \/ Gateaux_reentered
    \/ GradRuleset_step
    \/ NablaGradRuleset_step
    \/ DivRuleset_step
    \/ CurlRuleset_step
    \/ ReferenceGradRuleset_step
    \/ VariableRuleset_step
    \/ GateauxDerivativeRuleset_step

Spec == Init /\ [][Next]_vars

\* ---- a rule set mapped over an expression by its caller

\* map_expr_dag(rules, expression) with a rule set the caller constructed,
\* as the dispatcher handlers do with the operand of a derivative node.
DirectRules ==
    {GradRuleset(GDim), NablaGradRuleset(GDim), DivRuleset, CurlRuleset,
     ReferenceGradRuleset(TDim), VariableRuleset(uS, 0), VariableRuleset(uG, 0)}

DirectInputs ==
    {e \in Bodies \cup GateauxBodies \cup {Grad(b) : b \in Bodies} : ~IsErr(e)}

InitRules ==
    /\ CONDITIONAL_WORKAROUND = FALSE
    /\ expression \in DirectInputs
    /\ \E rules \in DirectRules : travs = <<Traversal(rules)>>
    /\ stack = <<Frame(1, expression)>>
    /\ result = None
    /\ pc = "run"
    /\ call = NoCall

\* apply_derivatives(expression), or a rule set mapped over expression.
SpecHandlers == (Init \/ InitRules) /\ [][Next]_vars

\* The module global CONDITIONAL_WORKAROUND set to True before the call, for
\* the expressions whose rules could read it.
RECURSIVE HasKind(_, _)
HasKind(e, K) == e.k \in K \/ \E p \in 1..Len(e.ops) : HasKind(e.ops[p], K)

ToggleInputs == {e \in Inputs : HasKind(e, {"conditional", "max_value", "min_value"})}

InitToggle ==
    /\ CONDITIONAL_WORKAROUND = TRUE
    /\ expression \in ToggleInputs
    /\ travs = <<Traversal(DerivativeRuleDispatcher)>>
    /\ stack = <<Frame(1, expression)>>
    /\ result = None
    /\ pc = "run"
    /\ call = NoCall

SpecToggle == (Init \/ InitToggle) /\ [][Next]_vars

\* The inputs with a derivative inside a coefficient derivative, with a
\* derivative below another operator, or with one of a few bodies.
LiveBodies ==
    {uS, uG, xx, Product(uS, uH), Sum(Product(uS, uH), Product(uS, uH)), Grad(uS),
     ReferenceValue(uS), Indexed(uG, mi_0), MaxValue(uS, uH), Division(uS, uH)}
    \cup GateauxBodies

LiveInputs ==
    {e \in Inputs : e \in Embedded \/ (Len(e.ops) > 0 /\ e.ops[1] \in LiveBodies)}

InitLive ==
    /\ CONDITIONAL_WORKAROUND = FALSE
    /\ expression \in LiveInputs
    /\ travs = <<Traversal(DerivativeRuleDispatcher)>>
    /\ stack = <<Frame(1, expression)>>
    /\ result = None
    /\ pc = "run"
    /\ call = NoCall

\* A call that has neither returned nor raised can take a step.
Halted == pc # "run" /\ UNCHANGED vars
SpecHalting == InitLive /\ [][Next \/ Halted]_vars

\* apply_derivatives is sequential code: a step that can be taken is taken.
\* Weak fairness of the traversal steps, and weak fairness of Next as a
\* whole with its enabling condition, pc = "run", written out.
RunsOn == []<>(pc # "run") \/ []<><<Next>>_vars
SpecLive == InitLive /\ [][Next]_vars /\ WF_vars(Visit \/ Revisit) /\ RunsOn

\* The traversal returns what the recursive definition computes.
ResultIsApplyDerivatives ==
    pc \in {"done", "error"} => result = apply_derivatives(expression)

\* ------------------------------------------------------------ properties

\* A handler call has returned a value / has raised an error.
Returned == call.fn[1] # "none" /\ ~IsErr(call.ret)
Raised == call.fn[1] # "none" /\ IsErr(call.ret)

\* The call returned a derivative: not None (the condition handlers) and
\* not the node itself (labels and multi-indices).
ReturnedDerivative ==
    /\ Returned
    /\ call.rs.name # "DerivativeRuleDispatcher"
    /\ call.ret # None
    /\ call.fn[2] # "non_differentiable_terminal"

GradLikeRulesets ==
    {"GradRuleset", "NablaGradRuleset", "ReferenceGradRuleset", "VariableRuleset"}

\* C1: in the gradient-like rule sets every handler that returns a
\* derivative for node o returns an expression of shape
\* shape(o) + var_shape.
C1_ShapeLawGradLike ==
    (ReturnedDerivative /\ call.rs.name \in GradLikeRulesets)
        => call.ret.sh = call.o.sh \o call.rs.var_shape

\* C2: in DivRuleset and CurlRuleset every handler that returns a
\* derivative for node o returns an expression of shape shape(o)[:-1].
C2_ShapeLawDivCurl ==
    (ReturnedDerivative /\ call.rs.name \in {"DivRuleset", "CurlRuleset"})
        => call.ret.sh = Front(call.o.sh)

CompoundDerivativeKinds ==
    {"grad", "nabla_grad", "div", "nabla_div", "curl", "reference_grad"}

\* A terminal (possibly wrapped in ReferenceValue), or a chain of
\* derivative nodes over one.
RECURSIVE OverTerminal(_)
OverTerminal(e) ==
    \/ IsTerminal(e)
    \/ e.k = "reference_value" /\ IsTerminal(e.ops[1])
    \/ e.k \in CompoundDerivativeKinds /\ OverTerminal(e.ops[1])

RECURSIVE NoAbstractDerivative(_)
NoAbstractDerivative(e) ==
    /\ e.k \notin {"variable_derivative", "coefficient_derivative"}
    /\ e.k \in CompoundDerivativeKinds => OverTerminal(e.ops[1])
    /\ \A p \in 1..Len(e.ops) : NoAbstractDerivative(e.ops[p])

\* C3: the expression apply_derivatives returns holds no VariableDerivative
\* or CoefficientDerivative node, and every Grad, NablaGrad, Div, Curl or
\* ReferenceGrad node left in it is applied to a terminal or to a chain of
\* derivative nodes over a terminal.
C3_NoAbstractDerivativeLeft ==
    pc = "done" => NoAbstractDerivative(result)

\* ---- Gateaux substitution

GateauxCall(h) == call.fn = <<"GateauxDerivativeRuleset", h>>
Occurrences(w, x) == Cardinality({p \in 1..Len(w) : w[p] = x})
RelationKeys(rs) == {rs.cd[p][1] : p \in 1..Len(rs.cd)}

\* C4: in a Gateaux rule set built from coefficients w_1..w_n and arguments
\* v_1..v_n (a perturbation map: each coefficient listed once),
\* differentiating w_i returns exactly v_i, also when a coefficient
\* derivative relation is given for w_i; differentiating a coefficient g
\* that is neither a w_i nor a key of the relation returns Zero of shape(g).
C4_GateauxSubstitution ==
    (Returned /\ GateauxCall("coefficient") /\ Len(call.rs.w) = Len(call.rs.v)) =>
        /\ \A i \in 1..Len(call.rs.w) :
              (call.rs.w[i] = call.o /\ Occurrences(call.rs.w, call.o) = 1)
                  => call.ret = call.rs.v[i]
        /\ (call.o \notin Range(call.rs.w) /\ call.o \notin RelationKeys(call.rs))
              => call.ret = Zero(call.o.sh, {})

\* A listed coefficient with a relation of its own was differentiated.
C4_Witness ==
    /\ Returned /\ GateauxCall("coefficient")
    /\ call.rs.w = <<call.o>>
    /\ call.o \in RelationKeys(call.rs)
    /\ call.ret = call.rs.v[1]

\* C5: each of the Gateaux handlers grad, div, curl and nabla_grad returns
\* apply_derivatives of the same derivative operator applied to the operand
\* derivative op when op is not cellwise constant, and the
\* independent-operator zero when it is.
C5_GateauxReentrant ==
    (Returned /\ call.rs.name = "GateauxDerivativeRuleset"
        /\ \E h \in {"grad", "div", "curl", "nabla_grad"} : GateauxCall(h)) =>
        IF is_cellwise_constant(call.a[1])
        THEN call.ret = Zero(call.o.sh, call.o.fi)
        ELSE call.ret = apply_derivatives(ReappliedOperator(call.fn[2], call.a[1]))

\* ---- restrictions and conditionals

GenericCall(h) == call.fn = <<"Generic", h>>

\* C6 as stated: the restricted rule returns fp unchanged when fp is a Zero
\* and reapplies the restriction side to every other fp, non-zero constant
\* values included.
C6_RestrictedOnlyZeroUnchanged ==
    (Returned /\ GenericCall("restricted")) =>
        call.ret = IF IsZero(call.a[1]) THEN call.a[1]
                   ELSE Restricted(call.a[1], SideOf(call.o))

\* C6 amended: the restricted rule returns fp unchanged when fp is any
\* constant value (Zero, a literal, an identity tensor) and reapplies the
\* restriction side of o to every other fp.
C6_RestrictedConstantUnchanged ==
    (Returned /\ GenericCall("restricted")) =>
        call.ret = IF call.a[1].k \in ConstantValueKinds THEN call.a[1]
                   ELSE Restricted(call.a[1], SideOf(call.o))

\* The derivative of a restricted operand was a non-zero constant value.
C6_Witness ==
    /\ Returned /\ GenericCall("restricted")
    /\ call.a[1].k \in ConstantValueKinds \ {"zero"}
    /\ call.ret = call.a[1]

RECURSIVE Contains(_, _)
Contains(e, x) == e = x \/ \E p \in 1..Len(e.ops) : Contains(e.ops[p], x)

\* C7: the workaround toggle is off and stays off; differentiating
\* conditional(c, a, b) returns the first branch derivative when both branch
\* derivatives are Zero and conditional(c, a', b') with the original
\* condition otherwise; None, the derivative of the condition, is not in
\* the result.
C7_ConditionalDefault ==
    /\ CONDITIONAL_WORKAROUND = FALSE
    /\ (Returned /\ GenericCall("conditional")) =>
          /\ call.ret = IF IsZero(call.a[2]) /\ IsZero(call.a[3]) THEN call.a[2]
                        ELSE Op("conditional", <<call.o.ops[1], call.a[2], call.a[3]>>,
                                call.a[2].sh, call.a[2].fi)
          /\ ~Contains(call.ret, None)

\* A conditional with a branch derivative that is not Zero was differentiated.
C7_Witness ==
    /\ Returned /\ GenericCall("conditional")
    /\ call.a[1] = None
    /\ ~IsZero(call.a[2])
    /\ call.ret.k = "conditional"
    /\ call.ret.ops[1] = call.o.ops[1]

\* ---- power, division, logarithm

CallBase == FreshBase(call.o, call.a)

\* f' * g * f**(g-1)
PowerSimplified(f, g, fp, n) ==
    Mul(Mul(fp, g, n), Power(f, Sum(g, IntValue(-1))), n + Len(fp.sh))

\* f**(g-1) * (g*f' + f*ln(f)*g')
PowerGeneral(f, g, fp, gp, n) ==
    Mul(Power(f, Sum(g, IntValue(-1))),
        Sum(Mul(g, fp, n),
            Mul(Mul(f, MathFunction("ln", f), n + Len(fp.sh)), gp, n + Len(fp.sh))),
        n + 2 * Len(fp.sh))

\* C8: the power rule for o = f**g reports an error unless f and g are both
\* true scalars; otherwise it returns f' * g * f**(g-1) when g' is a Zero
\* and f**(g-1) * (g*f' + f*ln(f)*g') when it is not.
C8_PowerRule ==
    GenericCall("power") =>
        LET f == call.o.ops[1]
            g == call.o.ops[2]
            fp == call.a[1]
            gp == call.a[2]
        IN IF ~is_true_ufl_scalar(f)
           THEN call.ret = Err("Expecting scalar expression f in f**g.")
           ELSE IF ~is_true_ufl_scalar(g)
           THEN call.ret = Err("Expecting scalar expression g in f**g.")
           ELSE IF IsZero(gp) THEN call.ret = PowerSimplified(f, g, fp, CallBase)
           ELSE call.ret = PowerGeneral(f, g, fp, gp, CallBase)

\* A power whose exponent has a derivative that is not Zero was differentiated.
C8_Witness ==
    /\ Returned /\ GenericCall("power")
    /\ ~IsZero(call.a[2])
    /\ call.ret # None

\* (f' - o*g')/g, o*g' taken component by component of g'.
Quotient(o, g, fp, gp, n) ==
    LET gi == indices(Len(gp.sh), n)
        n2 == n + Len(gi)
        prod == Mul(o, GetItem(gp, gi), n2)
        o_gp == IF gi # <<>> THEN as_tensor(prod, gi) ELSE prod
    IN Div_(Sum(fp, Neg(o_gp, n2)), g, n2 + Len(o_gp.sh))

\* C9: the division rule for o = f/g reports an error when f is not scalar
\* valued or g is not a true scalar, and returns (f' - o*g')/g otherwise.
C9_DivisionRule ==
    GenericCall("division") =>
        LET f == call.o.ops[1]
            g == call.o.ops[2]
        IN IF ~is_ufl_scalar(f) THEN call.ret = Err("Not expecting nonscalar nominator")
           ELSE IF ~is_true_ufl_scalar(g)
           THEN call.ret = Err("Not expecting nonscalar denominator")
           ELSE call.ret = Quotient(call.o, g, call.a[1], call.a[2], CallBase)

\* A division by an expression that is no true scalar was differentiated.
C9_Witness ==
    /\ Raised /\ GenericCall("division")
    /\ is_ufl_scalar(call.o.ops[1])
    /\ ~is_true_ufl_scalar(call.o.ops[2])

\* C10: the ln rule returns f'/f for an operand f that is not the Zero
\* expression and reports the error "Division by zero." when it is.
C10_LnRule ==
    GenericCall("ln") =>
        IF IsZero(call.o.ops[1]) THEN call.ret = Err("Division by zero.")
        ELSE call.ret = Div_(call.a[1], call.o.ops[1], CallBase)

\* The logarithm of the Zero expression was differentiated.
C10_Witness ==
    /\ Raised /\ GenericCall("ln")
    /\ IsZero(call.o.ops[1])

\* ---- Bessel functions

\* The derivative of a Bessel function of order nu with respect to its
\* argument f, by the recurrence relations.
BesselRecurrence(k, nu, f, n) ==
    LET lower == BesselFunction(k, Sum(nu, IntValue(-1)), f)
        upper == BesselFunction(k, Sum(nu, IntValue(1)), f)
        first == BesselFunction(k, IntValue(1), f)
    IN CASE k \in {"bessel_j", "bessel_y"} ->
              IF IsZero(nu) THEN Neg(first, n)
              ELSE Mul(FloatValue(500), Sub(lower, upper, n), n)
         [] k = "bessel_i" ->
              IF IsZero(nu) THEN first
              ELSE Mul(FloatValue(500), Add(lower, upper), n)
         [] k = "bessel_k" ->
              IF IsZero(nu) THEN Neg(first, n)
              ELSE Mul(FloatValue(-500), Add(lower, upper), n)

\* C11: each of the Bessel rules bessel_j, bessel_y, bessel_i, bessel_k
\* reports an error when the derivative of the order nu is neither a Zero
\* nor absent, and otherwise returns the recurrence derivative times the
\* derivative of the argument.
C11_BesselRule ==
    (\E k \in BesselKinds : GenericCall(k)) =>
        LET nup == call.a[1]
            fp == call.a[2]
        IN IF nup = None \/ IsZero(nup)
           THEN call.ret = Mul(BesselRecurrence(call.fn[2], call.o.ops[1], call.o.ops[2],
                                                CallBase), fp, CallBase)
           ELSE call.ret = Err("Differentiation of bessel function w.r.t. nu is not supported.")

\* A Bessel function whose order has a derivative that is not Zero was
\* differentiated.
C11_Witness ==
    /\ Raised /\ GenericCall("bessel_k")
    /\ call.a[1] # None /\ ~IsZero(call.a[1])

\* ---- nested gradients

\* C12: apply_derivatives of Grad(Grad(t)) for a terminal t succeeds with a
\* result of rank rank(t) + 2; the grad handler of GradRuleset returns
\* Grad(o) when the operand of o is a Grad or a terminal and reports
\* "Expecting only grads applied to a terminal." otherwise.
C12_NestedGrad ==
    /\ (/\ call.fn = <<"DerivativeRuleDispatcher", "grad">>
        /\ call.o.ops[1].k = "grad"
        /\ IsTerminal(call.o.ops[1].ops[1]))
          => /\ ~IsErr(call.ret)
             /\ Len(call.ret.sh) = Len(call.o.ops[1].ops[1].sh) + 2
    /\ call.fn = <<"GradRuleset", "grad">>
          => call.ret = IF call.o.ops[1].k = "grad" \/ IsTerminal(call.o.ops[1])
                        THEN Grad(call.o)
                        ELSE Err("Expecting only grads applied to a terminal.")

\* The spatial gradient rule set met a Grad of a compound operand.
C12_Witness ==
    /\ Raised /\ call.fn = <<"GradRuleset", "grad">>
    /\ call.o.k = "grad" /\ ~IsTerminal(call.o.ops[1]) /\ call.o.ops[1].k # "grad"

\* apply_derivatives returned the second gradient of a terminal.
C12_WitnessNested ==
    /\ Returned /\ call.fn = <<"DerivativeRuleDispatcher", "grad">>
    /\ call.o.ops[1].k = "grad" /\ IsTerminal(call.o.ops[1].ops[1])
    /\ pc = "done"

\* ---- reference frame

RECURSIVE CountKind(_, _)
CountKind(e, k) ==
    LET below[p \in 0..Len(e.ops)] ==
            IF p = 0 THEN 0 ELSE below[p - 1] + CountKind(e.ops[p], k)
    IN (IF e.k = k THEN 1 ELSE 0) + below[Len(e.ops)]

\* ret is K[j,i] * ReferenceGrad(o)[r + (j,)], summed over j, as a tensor
\* over r + (i,), with K the Jacobian inverse of the domain of o.
IsJacobianInverseContraction(o, ret) ==
    /\ ret.k = "component_tensor"
    /\ ret.ops[1].k = "index_sum"
    /\ LET prod == ret.ops[1].ops[1]
           j == ret.ops[1].ops[2].ix[1]
           ri == ret.ops[2].ix
       IN /\ prod.k = "product"
          /\ Len(ri) = Len(o.sh) + 1
          /\ prod.ops[1].k = "indexed"
          /\ prod.ops[1].ops[1] = JacobianInverse(ufl_domain(o))
          /\ prod.ops[1].ops[2].ix = <<j, ri[Len(ri)]>>
          /\ prod.ops[2].k = "indexed"
          /\ prod.ops[2].ops[1] = Op("reference_grad", <<o>>, o.sh \o <<TDim>>, o.fi)
          /\ prod.ops[2].ops[2].ix = Front(ri) \o <<j>>
    /\ CountKind(ret, "jacobian_inverse") = 1

\* C13 as stated: the Gradient rule set turns ReferenceValue(f) of a
\* terminal f into exactly one Jacobian-inverse contraction whose free
\* indices are those of the node plus the new gradient index i, and
\* reports an error for a ReferenceValue of a non-terminal.
C13_FreeIndicesPlusGradientIndex ==
    call.fn = <<"GradRuleset", "reference_value">> =>
        IF ~IsTerminal(call.o.ops[1])
        THEN call.ret = Err("ReferenceValue can only wrap a terminal")
        ELSE /\ IsJacobianInverseContraction(call.o, call.ret)
             /\ \E i \in call.ret.fi : i \notin call.o.fi /\ call.ret.fi = call.o.fi \cup {i}

\* C13 amended: for a terminal f that is not cellwise constant the result
\* is exactly one Jacobian-inverse contraction, with the gradient index i
\* bound as the last axis: shape shape(o) + (gdim,) and the free indices of
\* o; for a cellwise constant f, ReferenceGrad(o) is a Zero and the result
\* holds no Jacobian inverse; a ReferenceValue of a non-terminal is an
\* error.
C13_GradientIndexBound ==
    call.fn = <<"GradRuleset", "reference_value">> =>
        IF ~IsTerminal(call.o.ops[1])
        THEN call.ret = Err("ReferenceValue can only wrap a terminal")
        ELSE /\ call.ret.sh = call.o.sh \o call.rs.var_shape
             /\ call.ret.fi = call.o.fi
             /\ IF is_cellwise_constant(call.o.ops[1])
                THEN /\ CountKind(call.ret, "jacobian_inverse") = 0
                     /\ CountKind(call.ret, "reference_grad") = 0
                ELSE IsJacobianInverseContraction(call.o, call.ret)

\* The ReferenceValue of a vector coefficient was differentiated.
C13_Witness ==
    /\ Returned /\ call.fn = <<"GradRuleset", "reference_value">>
    /\ call.o.sh # <<>>
    /\ CountKind(call.ret, "jacobian_inverse") = 1

\* C14: in the reference-gradient rule set a bare Coefficient or Argument
\* and every Grad node produce an error and no derivative; a ReferenceValue
\* of a terminal yields ReferenceGrad of it, and the spatial coordinate x
\* yields ReferenceGrad(x).
C14_ReferenceGradRules ==
    (call.rs.name = "ReferenceGradRuleset" /\ call.fn[1] # "none") =>
        /\ call.o.k = "coefficient"
              => call.ret = Err("Coefficient should be wrapped in ReferenceValue by now")
        /\ call.o.k = "argument"
              => call.ret = Err("Argument should be wrapped in ReferenceValue by now")
        /\ call.o.k = "grad"
              => call.ret = Err("Grad should have been transformed by this point, but got Grad.")
        /\ (call.o.k = "reference_value" /\ IsTerminal(call.o.ops[1]))
              => call.ret = ReferenceGrad(call.o)
        /\ call.o.k = "spatial_coordinate"
              => call.ret = Op("reference_grad", <<call.o>>, call.o.sh \o call.rs.var_shape, {})

\* The reference-gradient rule set met a bare coefficient.
C14_Witness ==
    /\ Raised /\ call.rs.name = "ReferenceGradRuleset"
    /\ call.o.k = "coefficient"

\* ---- variable derivatives

GeometricQuantityKinds ==
    {"spatial_coordinate", "cell_coordinate", "jacobian_inverse", "facet_normal",
     "cell_volume"}

\* delta(d)[i, j]
KroneckerDelta(d, i, j) ==
    Op("indexed", <<Identity(d), MultiIndex(<<i, j>>)>>, <<>>, {<<i, d>>, <<j, d>>})

\* e is the identity tensor of rank 2 * Len(sh): 1.0, Identity(d), or the
\* product of one Kronecker delta per axis as a tensor over (i1, i2, j1, j2).
IsIdentityOfRank(e, sh) ==
    CASE sh = <<>> -> e = FloatValue(1000)
      [] Len(sh) = 1 -> e = Identity(sh[1])
      [] Len(sh) = 2 ->
            /\ e.k = "component_tensor"
            /\ e.sh = sh \o sh
            /\ e.fi = {}
            /\ LET ix == e.ops[2].ix
               IN /\ Len(ix) = 4
                  /\ Cardinality(Range(ix)) = 4
                  /\ e.ops[1].k = "product"
                  /\ Range(e.ops[1].ops) = {KroneckerDelta(sh[1], ix[1], ix[3]),
                                            KroneckerDelta(sh[2], ix[2], ix[4])}
      [] OTHER -> FALSE

\* C15: in the variable rule set for variable v, a coefficient equal to v
\* (v a Coefficient) differentiates to the identity tensor of rank
\* 2*rank(v); every other coefficient, every argument and every geometric
\* quantity differentiates to Zero of shape shape(o) + shape(v); a variable
\* with free indices is an error when the rule set is constructed.
C15_VariableRules ==
    /\ (call.rs.name = "VariableRuleset" /\ call.fn[1] # "none") =>
          LET v == call.rs.variable
          IN /\ call.o.k = "coefficient" =>
                   IF v.k = "coefficient" /\ call.o = v
                   THEN IsIdentityOfRank(call.ret, v.sh)
                   ELSE call.ret = Zero(call.o.sh \o v.sh, {})
             /\ call.o.k \in {"argument"} \cup GeometricQuantityKinds
                   => call.ret = Zero(call.o.sh \o v.sh, {})
             /\ v.fi = {}
    /\ (call.fn = <<"DerivativeRuleDispatcher", "variable_derivative">>
          /\ call.o.ops[2].fi # {})
          => call.ret = Err("Differentiation variable cannot have free indices.")

\* A tensor coefficient was differentiated with respect to itself.
C15_Witness ==
    /\ Returned /\ call.rs.name = "VariableRuleset"
    /\ call.o.k = "coefficient" /\ call.o = call.rs.variable
    /\ Len(call.o.sh) = 2
    /\ Len(call.ret.sh) = 4

\* ---- missing rules

DerivativeOperatorKinds ==
    {"grad", "nabla_grad", "div", "nabla_div", "curl", "reference_grad",
     "variable_derivative", "coefficient_derivative"}

\* The derivative operators a rule set class has a rule for.
DerivativeRulesOf(cls) ==
    CASE cls \in {"GradRuleset", "ReferenceGradRuleset", "VariableRuleset"} ->
            {"grad", "reference_grad"}
      [] cls = "NablaGradRuleset" -> {"nabla_grad"}
      [] cls \in {"DivRuleset", "CurlRuleset"} -> {"grad"}
      [] cls = "GateauxDerivativeRuleset" ->
            {"grad", "nabla_grad", "div", "nabla_div", "curl", "reference_grad"}
      [] OTHER -> {}

\* The fallback a node kind ends in when the class has no rule for it,
\* "rule" when it has one.
FallbackFor(cls, k) ==
    CASE k \in DerivativeOperatorKinds \ DerivativeRulesOf(cls) ->
            IF k = "grad" THEN "override" ELSE "derivative"
      [] k \in {"dot", "inner"}
            /\ cls \notin {"GradRuleset", "NablaGradRuleset", "GateauxDerivativeRuleset"} -> "expr"
      [] k = "reference_value"
            /\ cls \in {"NablaGradRuleset", "DivRuleset", "CurlRuleset"} -> "expr"
      [] k = "sign" -> "expr"
      [] OTHER -> "rule"

FallbackError(h, o) ==
    CASE h = "expr" ->
            Err("Missing differentiation handler for type " \o o.k
                    \o ". Have you added a new type?")
      [] h = "override" ->
            Err("Type " \o o.k \o " must be overridden in specialized AD rule set.")
      [] h = "derivative" ->
            Err("Unhandled derivative type " \o o.k
                    \o ", nested differentiation has failed.")

\* C16: when a rule set has no rule for a node kind, the call ends in the
\* error of the expr, override or derivative fallback, which names the node
\* kind; these fallbacks are reached for no other node kind, and no value is
\* returned in their place.
C16_MissingRuleIsError ==
    (call.fn[1] # "none" /\ call.rs.name \in RuleSetClasses) =>
        LET h == FallbackFor(call.rs.name, call.o.k)
        IN /\ h # "rule" =>
                 /\ call.fn = <<"Generic", h>>
                 /\ call.ret = FallbackError(h, call.o)
                 /\ Raised
           /\ (call.fn[1] = "Generic" /\ call.fn[2] \in {"expr", "override", "derivative"})
                 => h = call.fn[2]

\* The divergence rules met a curl, for which they have no rule.
C16_Witness ==
    /\ Raised
    /\ call.rs.name = "DivRuleset" /\ call.o.k = "curl"
    /\ call.ret = FallbackError("derivative", call.o)

\* ---- error propagation

\* C17: the step in which a handler reports an error ends the whole
\* apply_derivatives call: every running traversal is left, the caller gets
\* the error and no expression, and no step follows, so that no further
\* handler runs and no second error is reported.
C17_ErrorAborts ==
    [][/\ pc # "error"
       /\ IsErr(call'.ret) =>
             /\ pc' = "error"
             /\ result' = call'.ret
             /\ stack' = <<>>
             /\ travs' = <<>>
       /\ pc' = "done" => ~IsErr(result') /\ ~IsErr(call'.ret)]_vars

\* The curl rules raised on a list tensor that is no part of the body of the
\* coefficient derivative: the error came from the pass that the curl
\* handler of the Gateaux rules started.
C17_Witness ==
    /\ pc = "error" /\ Raised
    /\ expression.k = "coefficient_derivative"
    /\ call.rs.name = "CurlRuleset"
    /\ call.o.k = "list_tensor"
    /\ ~Contains(expression.ops[1], call.o)
    /\ result = call.ret
    /\ stack = <<>>

\* ---- traversal order

\* A step in which the handler of the top node returns or raises.
HandlerStep == Len(stack') < Len(stack)

\* The handler of the top node is given the results that the traversal
\* holds for all of its operands.
GivenOperandResults ==
    /\ Len(call'.a) = Len(Top.o.ops)
    /\ \A p \in 1..Len(Top.o.ops) : <<Top.o.ops[p], call'.a[p]>> \in TopMemo

C18_WitnessCutoff ==
    /\ Returned
    /\ call.fn = <<"GradRuleset", "grad">>
    /\ call.a = <<>>

\* ---- what the dispatcher leaves alone

RECURSIVE HasDerivative(_)
HasDerivative(e) ==
    e.k \in DerivativeOperatorKinds \/ \E p \in 1..Len(e.ops) : HasDerivative(e.ops[p])

\* C19: the dispatcher returns a terminal as it is, a non-derivative
\* operator whose operand results are its operands as it is, and an Indexed
\* node whose operand result is its operand as it is; apply_derivatives of
\* an expression without a derivative operator returns the expression.
C19_UntouchedReused ==
    /\ (call.fn[1] = "DerivativeRuleDispatcher") =>
          /\ call.fn[2] = "terminal" => call.ret = call.o
          /\ (call.fn[2] = "expr" /\ call.a = call.o.ops) => call.ret = call.o
          /\ (call.fn[2] = "indexed" /\ call.a[1] = call.o.ops[1]) => call.ret = call.o
    /\ ~HasDerivative(expression) =>
          /\ pc # "error"
          /\ pc = "done" => result = expression

\* apply_derivatives returned an Indexed of a component tensor, without a
\* derivative in it, as it was.
C19_Witness ==
    /\ pc = "done"
    /\ ~HasDerivative(expression)
    /\ expression.k = "indexed"
    /\ expression.ops[1].k = "component_tensor"
    /\ call.fn = <<"DerivativeRuleDispatcher", "indexed">>
    /\ result = expression

\* ---- max_value and min_value

\* dc*f' + (1 - dc)*g'
SelectByIndicator(dc, df, dg, n) ==
    Add(Mul(dc, df, n), Mul(Sub(FloatValue(1000), dc, n), dg, n + Len(df.sh)))

\* conditional(f rel g, 1, 0)
Indicator(rel, f, g) ==
    Op("conditional", <<Op(rel, <<f, g>>, <<>>, {}), IntValue(1), IntValue(0)>>, <<>>, {})

\* C21: with the toggle off and with the toggle on, the max_value rule
\* returns dc*f' + (1 - dc)*g' with dc = conditional(f > g, 1, 0) and the
\* min_value rule the same with dc = conditional(f < g, 1, 0): the
\* comparison is strict, so a tie takes the derivative of the second
\* argument.
C21_MaxMinRule ==
    /\ GenericCall("max_value") =>
          call.ret = SelectByIndicator(Indicator("gt", call.o.ops[1], call.o.ops[2]),
                                       call.a[1], call.a[2], CallBase)
    /\ GenericCall("min_value") =>
          call.ret = SelectByIndicator(Indicator("lt", call.o.ops[1], call.o.ops[2]),
                                       call.a[1], call.a[2], CallBase)

\* With the toggle on, the max_value rule returned the sum of both
\* derivatives weighted by the indicator of f > g.
C21_Witness ==
    /\ CONDITIONAL_WORKAROUND = TRUE
    /\ Returned /\ GenericCall("max_value")
    /\ call.ret.k = "sum"
    /\ Contains(call.ret, Indicator("gt", call.o.ops[1], call.o.ops[2]))
    /\ ~IsZero(call.a[1]) /\ ~IsZero(call.a[2])

\* ---- zero propagation through indexing

\* shape(o) + var_shape, or shape(o)[:-1] in the divergence rule set.
IndependentOperatorShape(rs, o) ==
    IF rs.name = "DivRuleset"
    THEN [p \in 1..(Len(o.sh) - 1) |-> o.sh[p]]
    ELSE o.sh \o rs.var_shape

\* C22: when the operand derivative is a Zero, the indexed and the
\* component_tensor rule return a Zero of the independent-operator shape of
\* the rule set for o, with the free indices of o.
C22_ZeroOperandDerivative ==
    ((GenericCall("indexed") \/ GenericCall("component_tensor")) /\ IsZero(call.a[1])) =>
        /\ Returned
        /\ IsZero(call.ret)
        /\ call.ret.sh = IndependentOperatorShape(call.rs, call.o)
        /\ call.ret.fi = call.o.fi

\* The gradient rules indexed a zero derivative with a free index.
C22_Witness ==
    /\ Returned /\ GenericCall("indexed")
    /\ IsZero(call.a[1])
    /\ call.rs.var_shape # <<>>
    /\ call.o.fi # {}
    /\ IsZero(call.ret) /\ call.ret.fi = call.o.fi

\* ---- the two indexed handlers

\* C23: on an operand result Ap that is neither a Zero nor the operand
\* itself, the indexed handler of the dispatcher and the indexed rule of the
\* generic rule set return the same node for the same (o, Ap, ii): each
\* call of one, given to the other, has the same result.
C23_IndexedHandlersAgree ==
    ((call.fn = <<"DerivativeRuleDispatcher", "indexed">> \/ GenericCall("indexed"))
        /\ ~IsZero(call.a[1]) /\ call.a[1] # call.o.ops[1]) =>
        /\ call.ret = Dispatcher_indexed(call.o, call.a[1], call.a[2], CallBase)
        /\ call.ret = Generic_indexed(call.rs, call.o, call.a[1], call.a[2], CallBase)

\* The rule of a rule set collapsed as_tensor(C[kk], jj)[ii] to C[ll].
C23_Witness ==
    /\ Returned /\ GenericCall("indexed")
    /\ ~IsZero(call.a[1]) /\ call.a[1] # call.o.ops[1]
    /\ CanUntangle(call.a[1])
    /\ call.ret = Indexed(call.a[1].ops[1].ops[1], call.ret.ops[2])

\* The dispatcher collapsed as_tensor(C[kk], jj)[ii] to C[ll].
C23_WitnessDispatcher ==
    /\ Returned /\ call.fn = <<"DerivativeRuleDispatcher", "indexed">>
    /\ ~IsZero(call.a[1]) /\ call.a[1] # call.o.ops[1]
    /\ CanUntangle(call.a[1])
    /\ call.ret = Indexed(call.a[1].ops[1].ops[1], call.ret.ops[2])

\* ---- rule-set state

\* The class of the rule set that lowers a derivative node.
RulesetClassOf(k) ==
    CASE k = "grad" -> "GradRuleset"
      [] k = "nabla_grad" -> "NablaGradRuleset"
      [] k = "div" -> "DivRuleset"
      [] k = "curl" -> "CurlRuleset"
      [] k = "reference_grad" -> "ReferenceGradRuleset"
      [] k = "variable_derivative" -> "VariableRuleset"
      [] k = "coefficient_derivative" -> "GateauxDerivativeRuleset"
      [] OTHER -> "none"

\* r is a rule set newly constructed for the derivative node o.
ConstructedFor(r, o) ==
    /\ r.name = RulesetClassOf(o.k)
    /\ r.err = None
    /\ o.k = "variable_derivative" =>
          r.variable = o.ops[2] /\ r.var_shape = o.ops[2].sh
    /\ o.k = "coefficient_derivative" =>
          /\ r.w = o.ops[2].ops /\ r.v = o.ops[3].ops
          /\ r.w2v = Zip(o.ops[2].ops, o.ops[3].ops)
          /\ r.cd = Pairs(o.ops[4].ops)
    /\ o.k \in {"grad", "reference_grad"} =>
          r.var_shape = <<o.sh[Len(o.sh)]>> /\ r.Id = Identity(o.sh[Len(o.sh)])
    /\ o.k = "nabla_grad" =>
          r.var_shape = <<o.sh[1]>> /\ r.Id = Identity(o.sh[1])

\* C24: no step changes the rule set of a running pass; a pass that starts
\* has an empty memo and a rule set constructed for the derivative node the
\* dispatcher is lowering, or a new dispatcher when a Gateaux handler
\* starts it; every handler runs with the rule set of its pass.
C24_RuleSetsFixed ==
    [][/\ \A p \in 1..Len(travs) : p <= Len(travs') => travs'[p].rules = travs[p].rules
       /\ Len(travs') > Len(travs) =>
             /\ Len(travs') = Len(travs) + 1
             /\ travs'[Len(travs')].memo = {}
             /\ IF InDispatcher THEN ConstructedFor(travs'[Len(travs')].rules, Top.o)
                ELSE travs'[Len(travs')].rules = DerivativeRuleDispatcher
       /\ HandlerStep => call'.rs = TopRules]_vars

\* A handler of the variable rules ran inside a pass for a vector variable
\* while the pass of the dispatcher was waiting: two rule sets, each its own.
C24_Witness ==
    /\ Returned
    /\ call.rs.name = "VariableRuleset"
    /\ call.rs.variable.sh # <<>>
    /\ Len(travs) = 2
    /\ travs[1].rules = DerivativeRuleDispatcher
    /\ travs[2].rules = call.rs
    /\ travs[2].memo # {}

\* ---- termination

\* Dispatcher, Gateaux rules, the dispatcher a Gateaux handler starts, and
\* the rule set that one lowers with.
NestingDepth == 4

\* The expression a running pass was started on.
RootOf(p) == stack[CHOOSE q \in 1..Len(stack) :
                       stack[q].t = p /\ \A q2 \in 1..(q-1) : stack[q2].t # p].o

\* Every node a pass has handled is a node of the expression it was
\* started on.
HandledWithinPass ==
    \A p \in 1..Len(travs) : \A m \in travs[p].memo : Contains(RootOf(p), m[1])

\* C25: apply_derivatives ends, with a result or with an error; on the way
\* no more than NestingDepth passes are nested, a pass handles nodes of its
\* own expression only, and the ReferenceGrad(x) that the reference-gradient
\* rules return for the spatial coordinate is the result, not rewritten.
C25_Terminates ==
    /\ [](/\ Len(travs) <= NestingDepth
          /\ HandledWithinPass
          /\ (pc = "done" /\ expression = ReferenceGrad(xx)) => result = ReferenceGrad(xx))
    /\ <>(pc \in {"done", "error"})

\* apply_derivatives of ReferenceGrad(x) has returned.
C25_Witness ==
    /\ pc = "done"
    /\ expression = ReferenceGrad(xx)
    /\ result = ReferenceGrad(xx)
    /\ call.fn = <<"DerivativeRuleDispatcher", "reference_grad">>

\* A pass that a Gateaux handler started lowers a derivative in turn: four
\* passes are nested.
C25_WitnessNested == Len(travs) = NestingDepth

\* ---- the divergence rules on scalars

\* The call went through self.independent_terminal or
\* self.independent_operator of the divergence rule set.
DivHelperApplied ==
    /\ call.rs.name = "DivRuleset"
    /\ \/ call.fn \in {<<"DivRuleset", "coefficient">>, <<"DivRuleset", "geometric_quantity">>}
             /\ is_cellwise_constant(call.o)
       \/ call.fn \in {<<"Generic", "indexed">>, <<"Generic", "component_tensor">>}
             /\ IsZero(call.a[1])

\* C26: the divergence rule set applying independent_terminal or
\* independent_operator to a node of rank 0 raises an error.
C26_DivScalarIsError ==
    (DivHelperApplied /\ call.o.sh = <<>>) => Raised

\* What the code does there: it returns a scalar Zero.
C26_DivScalarIsZero ==
    (DivHelperApplied /\ call.o.sh = <<>>) =>
        (Returned /\ IsZero(call.ret) /\ call.ret.sh = <<>>)

\* ---- free indices of the generic indexed rule

FreeIds(e) == {p[1] : p \in e.fi}

\* Ap is as_tensor(C[kk], jj) and jj has more indices than ii.
UntanglesLonger ==
    /\ CanUntangle(call.a[1])
    /\ Len(call.a[1].ops[2].ix) > Len(call.a[2].ix)

\* C27: the result of the generic indexed rule has exactly the free
\* indices of o = A[ii], also when as_tensor(C[kk], jj)[ii] is collapsed
\* with jj longer than ii.
C27_IndexedKeepsFreeIndices ==
    (call.fn = <<"Generic", "indexed">> /\ Returned) =>
        FreeIds(call.ret) = FreeIds(call.o)

\* What the code does: the free indices are those of o except in the
\* collapse with jj longer than ii, where the unpaired indices of jj
\* stay free in the result.
C27_IndexedFreeIndicesUnlessLonger ==
    (call.fn = <<"Generic", "indexed">> /\ Returned) =>
        IF UntanglesLonger
        THEN /\ FreeIds(call.o) \subseteq FreeIds(call.ret)
             /\ FreeIds(call.ret) \ FreeIds(call.o) # {}
             /\ FreeIds(call.ret) \ FreeIds(call.o) \subseteq Range(call.a[1].ops[2].ix)
        ELSE FreeIds(call.ret) = FreeIds(call.o)

\* ---- the coefficient-to-argument map

GateauxRuleSets ==
    {travs[t].rules : t \in {q \in 1..Len(travs) : travs[q].rules.name = "GateauxDerivativeRuleset"}}

\* C28: the map of a constructed Gateaux rule set pairs every listed
\* coefficient w_i with the argument v_i at the same position.
C28_EveryCoefficientPaired ==
    \A rs \in GateauxRuleSets :
        \A p \in 1..Len(rs.w) :
            p <= Len(rs.v) /\ DictGet(rs.w2v, rs.w[p]) = rs.v[p]

\* What the code builds: a coefficient past the end of the argument list
\* has no entry, and a coefficient listed more than once is paired with
\* the argument at its last position within the shorter length.
C28_PairedAsZipped ==
    \A rs \in GateauxRuleSets :
        LET m == IF Len(rs.w) < Len(rs.v) THEN Len(rs.w) ELSE Len(rs.v)
        IN \A p \in 1..Len(rs.w) :
               LET at == {q \in 1..m : rs.w[q] = rs.w[p]}
               IN IF at = {} THEN DictGet(rs.w2v, rs.w[p]) = None
                  ELSE DictGet(rs.w2v, rs.w[p]) = rs.v[Max(at)]

\* ---- IndexSum node queries

\* e.free_indices() as a tuple, in increasing order of the index count.
free_indices(e) ==
    CHOOSE t \in [1..Cardinality(FreeIds(e)) -> FreeIds(e)] :
        \A p, q \in DOMAIN t : p < q => t[p] < t[q]

\* e.index_dimensions() as a dict from index to dimension.
index_dimensions(e) ==
    [i \in FreeIds(e) |-> (CHOOSE p \in e.fi : p[1] = i)[2]]

\* tuple(i for i in self._summand.free_indices() if not i == j)
IndexSum_free_indices(o) ==
    LET j == o.ops[2].ix[1]
        keep(i) == i # j
    IN SelectSeq(free_indices(o.ops[1]), keep)

IndexSum_index_dimensions(o) == index_dimensions(o.ops[1])

IndexSum_shape(o) == o.ops[1].sh

\* The IndexSum nodes a rule received or returned.
IndexSumNodes == {n \in {call.o, call.ret} : n.k = "index_sum"}

\* Multi-indices of length other than 1.
NotSingle == {MultiIndex(<<>>), MultiIndex(<<1, 2>>), MultiIndex(<<0, 1>>)}

\* C29: in IndexSum(summand, j) the summed index j is not among
\* free_indices(), which is the summand's with j removed in order; j is not
\* a key of index_dimensions(), whose keys are the node's free indices;
\* shape() is the summand's shape; a multi-index of length other than 1 is
\* an error.
C29_SummedIndexBound ==
    \A o \in IndexSumNodes :
        LET j == o.ops[2].ix[1]
            summand == o.ops[1]
            keep(i) == i # j
        IN /\ j \notin Range(IndexSum_free_indices(o))
           /\ IndexSum_free_indices(o) = SelectSeq(free_indices(summand), keep)
           /\ j \notin DOMAIN IndexSum_index_dimensions(o)
           /\ DOMAIN IndexSum_index_dimensions(o) = Range(IndexSum_free_indices(o))
           /\ IndexSum_shape(o) = summand.sh
           /\ \A mi \in NotSingle : IsErr(IndexSum(summand, mi))

\* What the code does: free indices, shape and the constructor are as
\* described, and index_dimensions() is the summand's dict, which still
\* has the summed index as a key whenever the summand has it free.
C29_DimensionsOfSummand ==
    \A o \in IndexSumNodes :
        LET j == o.ops[2].ix[1]
            summand == o.ops[1]
        IN /\ j \notin Range(IndexSum_free_indices(o))
           /\ Range(IndexSum_free_indices(o)) = FreeIds(summand) \ {j}
           /\ FreeIds(o) = Range(IndexSum_free_indices(o))
           /\ IndexSum_index_dimensions(o) = index_dimensions(summand)
           /\ (j \in FreeIds(summand) => j \in DOMAIN IndexSum_index_dimensions(o))
           /\ IndexSum_shape(o) = summand.sh
           /\ \A mi \in NotSingle : IsErr(IndexSum(summand, mi))

\* ---- IndexSum.evaluate

\* Dict keys: an Index object and a MultiIndex object are different keys,
\* also when the multi-index holds just that index.
IndexKey(i) == [cls |-> "Index", ix |-> <<i>>]
MultiIndexKey(mi) == [cls |-> "MultiIndex", ix |-> mi.ix]

\* Bindings index_values may hold on entry, innermost last.
EntryBindings == {<<>>, <<<<IndexKey(7), 1>>>>, <<<<IndexKey(7), 0>>, <<IndexKey(8), 1>>>>}

\* The summand's value under the bindings: some number that depends on
\* the innermost binding; the summand leaves index_values as it found it.
SummandValue(index_values) == 1 + index_values[Len(index_values)][2]

\* "for i in range(d)": push, add the summand's value, pop.  seen collects
\* the number of bindings present at each summand evaluation.
RECURSIVE EvaluateLoop(_, _, _, _, _, _)
EvaluateLoop(key, d, i, tmp, index_values, seen) ==
    IF i >= d
    THEN [raised |-> "", tmp |-> tmp, index_values |-> index_values, seen |-> seen]
    ELSE LET pushed == Append(index_values, <<key, i>>)
             popped == SubSeq(pushed, 1, Len(pushed) - 1)
         IN EvaluateLoop(key, d, i + 1, tmp + SummandValue(pushed), popped,
                         Append(seen, Len(pushed)))

\* IndexSum.evaluate: d is looked up in the summand's index_dimensions(),
\* a dict keyed by free index, under self._index, the multi-index.
IndexSum_evaluate(o, index_values) ==
    LET dims == index_dimensions(o.ops[1])
        key == MultiIndexKey(o.ops[2])
    IN IF \E i \in DOMAIN dims : IndexKey(i) = key
       THEN EvaluateLoop(key, dims[CHOOSE i \in DOMAIN dims : IndexKey(i) = key],
                         0, 0, index_values, <<>>)
       ELSE [raised |-> "KeyError", tmp |-> 0, index_values |-> index_values,
             seen |-> <<>>]

\* 1 + 0, 1 + 1, ..., 1 + (d-1) added up.
RECURSIVE SumOfValues(_)
SumOfValues(d) == IF d <= 0 THEN 0 ELSE d + SumOfValues(d - 1)

\* C30: IndexSum.evaluate returns the sum of the summand's values for the
\* summed index bound to 0..d-1 in turn, d its dimension; each summand
\* evaluation sees exactly one binding more than on entry, and on return
\* index_values holds the bindings it held on entry.
C30_EvaluateSumsAndRestores ==
    \A o \in IndexSumNodes : \A index_values \in EntryBindings :
        LET r == IndexSum_evaluate(o, index_values)
            d == index_dimensions(o.ops[1])[o.ops[2].ix[1]]
        IN /\ r.raised = ""
           /\ r.tmp = SumOfValues(d)
           /\ Len(r.seen) = d
           /\ \A p \in 1..Len(r.seen) : r.seen[p] = Len(index_values) + 1
           /\ r.index_values = index_values

\* What the code does: the lookup of d fails before anything is pushed.
C30_EvaluateRaises ==
    \A o \in IndexSumNodes : \A index_values \in EntryBindings :
        LET r == IndexSum_evaluate(o, index_values)
        IN r.raised = "KeyError" /\ r.seen = <<>> /\ r.index_values = index_values

\* The loop itself is balanced once d is known.
C30_LoopBalanced ==
    \A o \in IndexSumNodes : \A index_values \in EntryBindings :
        LET d == index_dimensions(o.ops[1])[o.ops[2].ix[1]]
            r == EvaluateLoop(MultiIndexKey(o.ops[2]), d, 0, 0, index_values, <<>>)
        IN /\ r.tmp = SumOfValues(d)
           /\ Len(r.seen) = d
           /\ \A p \in 1..Len(r.seen) : r.seen[p] = Len(index_values) + 1
           /\ r.index_values = index_values

====
